---- MODULE Spec2Model ----
(***************************************************************************)
(* Batch fetch-and-transform pipeline of scraper_mcp: the batch            *)
(* orchestrator (tools/service.py), the fetcher with retry and cache       *)
(* (providers/requests_provider.py) and the cache gateway                  *)
(* (cache_manager.py), as one state machine.                               *)
(*                                                                         *)
(* A step of a per-URL pipeline is the code that runs between two          *)
(* suspension points of the event loop: the acquisition of the gate, the   *)
(* completion of a network call run in the executor, and the end of a      *)
(* backoff sleep.  Everything between two of them runs without             *)
(* interleaving, as it does on the single-threaded event loop.             *)
(***************************************************************************)
EXTENDS Integers, Sequences, FiniteSets, TLC

VARIABLES
    cache_enabled,   \* RequestsProvider.cache_enabled
    cache,           \* the store of the cache manager: key -> entry
    storeUp,         \* whether the store answers (FALSE: its calls raise)
    now,             \* wall clock, seconds
    batch,           \* "idle" | "running" | "returned" | "raised"
    batchNo,         \* number of batch calls started
    urls,            \* the batch call's arguments
    max_retries,
    concurrency,
    css_selector,
    include_headers,
    op,              \* which of the four batch operations is running
    permits,         \* asyncio.Semaphore._value of the batch's gate
    pc,              \* per pipeline: "pending" | "request" | "backoff" | "done"
    attempt,         \* per pipeline: local `attempt` of RequestsProvider.scrape
    last_exception,  \* per pipeline: local `last_exception`
    netCalls,        \* per pipeline: session.get calls issued
    sleeps,          \* per pipeline: backoff sleeps started
    lastOutcome,     \* per pipeline: outcome of its latest network call
    scraped,         \* per pipeline: what provider.scrape returned or raised
    item,            \* per pipeline: the per-URL result item
    doneOrder,       \* pipelines in the order they completed
    response,        \* the value returned by the batch call
    retry_delay,     \* RequestsProvider.retry_delay
    scrapeops_enabled, \* RequestsProvider.scrapeops_enabled
    delays,          \* per pipeline: the delays of its backoff sleeps, in order
    finalUrl,        \* per pipeline: response.url of its successful response
    runtime_config,  \* admin/service.py _runtime_config
    config_result,   \* what the latest update_config call returned
    clear_status,    \* status of the latest cache clear operation
    metrics,         \* metrics.py _metrics
    recorded,        \* every record passed to record_request, in call order
    fn,              \* the cache-manager function last called on its own
    fn_url,          \* its url argument
    fn_headers,      \* its headers argument
    fn_result,       \* the value it returned
    calls,           \* per concurrent batch call: its gate and its pipelines
    returned         \* the batch calls that returned, with their arguments, in order

vars == <<cache_enabled, cache, storeUp, now, batch, batchNo, urls, max_retries,
          concurrency, css_selector, include_headers, op, permits, pc, attempt,
          last_exception, netCalls, sleeps, lastOutcome, scraped, item, doneOrder,
          response, retry_delay, scrapeops_enabled, delays, finalUrl, runtime_config, config_result,
          clear_status, metrics, recorded, fn, fn_url,
          fn_headers, fn_result, calls, returned>>

\* The variables of the calls made on the cache manager's pure functions.
fnVars == <<fn, fn_url, fn_headers, fn_result>>

---------------------------------------------------------------------------
(* Bounds of the model *)

MaxUrls == 2
MaxConcurrency == 2
MaxRetries == 1
MaxFetchRetries == 2
MaxBatches == 1
MaxTicks == 1
MaxTokens == 3
MaxHeaders == 2
MaxBackoffRetries == 3
MaxRecords == 52
MaxSwitches == 2
\* Entries of a posted configuration update.
MaxEntries == 2
\* Calls of update_config in a row.
MaxUpdates == 2
\* Largest attempts count of a metadata dict passed to clean_metadata.
MaxCount == 3
\* Batch calls running at the same time.
MaxCalls == 2
\* Tool calls made one after the other on the same cache.
MaxRequests == 2

---------------------------------------------------------------------------
(* Program constants *)

\* admin/service.py
DEFAULT_CONCURRENCY == 8

\* RequestsProvider.__init__(retry_delay=1.0)
DEFAULT_RETRY_DELAY == 1

DEFAULT_TTL == 3600
STATIC_ASSET_TTL == 86400
REALTIME_DATA_TTL == 300

\* metrics.py: deque(maxlen=50) and deque(maxlen=20)
RECENT_REQUESTS_MAXLEN == 50
RECENT_ERRORS_MAXLEN == 20

\* The clock advances in steps of the shortest TTL.
TickStep == REALTIME_DATA_TTL

---------------------------------------------------------------------------
(* URLs are character sequences, so that the substring policy of the TTL   *)
(* is computed and not assumed.                                            *)

UrlApi == <<"h", "t", "t", "p", ":", "A", "p", "i">>
UrlPage == <<"h", "t", "t", "p", ":", "p", "g">>
UrlCdn == <<"h", "t", "t", "p", "s", ":", "c", "d", "n">>
UrlFtp == <<"f", "t", "p", ":", "p", "g">>

BatchUrls == {UrlApi, UrlPage}

LowerChar(c) ==
    CASE c = "A" -> "a"
      [] c = "P" -> "p"
      [] c = "I" -> "i"
      [] c = "C" -> "c"
      [] c = "D" -> "d"
      [] c = "N" -> "n"
      [] c = "L" -> "l"
      [] c = "V" -> "v"
      [] c = "E" -> "e"
      [] c = "S" -> "s"
      [] c = "T" -> "t"
      [] OTHER -> c

Lower(s) == [k \in 1..Len(s) |-> LowerChar(s[k])]

Contains(s, p) ==
    \E k \in 0..(Len(s) - Len(p)) : SubSeq(s, k + 1, k + Len(p)) = p

StaticPatterns ==
    { <<"s","t","a","t","i","c">>, <<"c","d","n">>,
      <<"c","l","o","u","d","f","r","o","n","t">> }

RealtimePatterns ==
    { <<"a","p","i">>, <<"r","e","a","l","t","i","m","e">>, <<"l","i","v","e">> }

get_ttl_for_urlMutantConfigured(url) ==
    LET url_lower == Lower(url) IN
    IF \E p \in StaticPatterns : Contains(url_lower, p)
    THEN runtime_config.cache_ttl_static.n
    ELSE IF \E p \in RealtimePatterns : Contains(url_lower, p)
    THEN runtime_config.cache_ttl_realtime.n
    ELSE runtime_config.cache_ttl_default.n

get_ttl_for_urlMutantRealtimeFirst(url) ==
    LET url_lower == Lower(url) IN
    IF \E p \in RealtimePatterns : Contains(url_lower, p) THEN REALTIME_DATA_TTL
    ELSE IF \E p \in StaticPatterns : Contains(url_lower, p) THEN STATIC_ASSET_TTL
    ELSE DEFAULT_TTL

get_ttl_for_url(url) ==
    LET url_lower == Lower(url) IN
    IF \E p \in StaticPatterns : Contains(url_lower, p) THEN STATIC_ASSET_TTL
    ELSE IF \E p \in RealtimePatterns : Contains(url_lower, p) THEN REALTIME_DATA_TTL
    ELSE DEFAULT_TTL

\* urlparse(url).scheme: the lower-cased text before the first colon.
UrlScheme(url) ==
    IF \E k \in 1..Len(url) : url[k] = ":"
    THEN LET first == CHOOSE k \in 1..Len(url) :
                          url[k] = ":" /\ \A j \in 1..(k - 1) : url[j] # ":"
         IN  Lower(SubSeq(url, 1, first - 1))
    ELSE <<>>

\* RequestsProvider.supports_url
supports_url(url) ==
    UrlScheme(url) \in { <<"h","t","t","p">>, <<"h","t","t","p","s">> }

\* The error of core.providers.get_provider for a URL no provider supports.
NoProviderError == [type |-> "ValueError", msg |-> "No provider supports URL"]

---------------------------------------------------------------------------
(* Cache gateway *)

\* A header mapping is a dict: the sequence of its (name, value) items in
\* insertion order, the names distinct.
HeaderNames == {"Accept", "User-Agent", "X-Id"}

\* The order of the names as strings.
NameRank(n) ==
    CASE n = "Accept" -> 1
      [] n = "User-Agent" -> 2
      [] n = "X-Id" -> 3

\* Headers the provider sends when the caller passes none.
RequestHeaders == << <<"User-Agent", "Mozilla/5.0">> >>

\* The default user agent is not added when the ScrapeOps proxy is on.
SentHeaders == IF scrapeops_enabled THEN <<>> ELSE RequestHeaders

CacheKwargsMutantPerOperation(o) == IF o = "html" THEN SentHeaders ELSE <<>>

\* What scrape passes to generate_cache_key besides the URL: the request
\* headers, whatever the operation o of the calling tool.
CacheKwargs(o) == SentHeaders

Items(h) == { h[k] : k \in 1..Len(h) }

\* json.dumps(..., sort_keys=True) writes the items of a dict by ascending key.
SortedItems(h) ==
    [k \in 1..Len(h) |->
        CHOOSE x \in Items(h) :
            Cardinality({ y \in Items(h) : NameRank(y[1]) < NameRank(x[1]) }) = k - 1]

generate_cache_keyMutantUnsorted(url, headers) == <<"headers", headers, "url", url>>

\* The key is the SHA-256 digest of the key-sorted JSON text of
\* {"url": url, "headers": headers}; the digest is taken as injective, so the
\* key is that text.
generate_cache_key(url, headers) == <<"headers", SortedItems(headers), "url", url>>

CacheKeys ==
    { generate_cache_key(u, h) : u \in BatchUrls \cup {UrlCdn, UrlFtp},
                                 h \in {RequestHeaders, <<>>} }

Absent == [absent |-> TRUE]

IsAbsent(e) == DOMAIN e = {"absent"}

\* What the store holds for a key at time t.
EntryState(c, key, t) ==
    IF IsAbsent(c[key]) THEN "absent"
    ELSE IF c[key].expire_time > t THEN "fresh"
    ELSE "expired"

CacheGetMutantServeOnError(c, key, t, readOk) ==
    IF EntryState(c, key, t) = "fresh" THEN c[key].value ELSE Absent

CacheGetMutantInverted(c, key, t, readOk) ==
    IF readOk /\ ~IsAbsent(c[key]) /\ c[key].expire_time < t THEN c[key].value ELSE Absent

\* CacheManager.get: the stored value when the read succeeds and the entry is
\* unexpired; the default (a miss) otherwise, also when the store raises.
CacheGet(c, key, t, readOk) ==
    IF readOk /\ EntryState(c, key, t) = "fresh" THEN c[key].value ELSE Absent

StoredMutantAliased(value) == [value EXCEPT !.metadata = [k \in DOMAIN @ \ {"headers"} |-> @[k]]]

\* What the store keeps of a value: its serialisation at the time of the
\* call, which later changes of the object do not reach.
Stored(value) == value

CacheSetMutantDrop(c, key, value, expire, t, writeOk) == c

CacheSetMutantAfterSelector(c, key, value, expire, t, writeOk) ==
    IF writeOk /\ css_selector # "["
    THEN [c EXCEPT ![key] = [value |-> value, expire_time |-> t + expire]]
    ELSE c

CacheSetMutantKeep(c, key, value, expire, t, writeOk) ==
    IF writeOk /\ IsAbsent(c[key])
    THEN [c EXCEPT ![key] = [value |-> value, expire_time |-> t + expire]]
    ELSE c

\* CacheManager.set: stores value under key with expiry t + expire; a store
\* error is logged and the store is left as it was.
CacheSet(c, key, value, expire, t, writeOk) ==
    IF writeOk
    THEN [c EXCEPT ![key] = [value |-> value, expire_time |-> t + expire]]
    ELSE c

---------------------------------------------------------------------------
(* Fetcher: RequestsProvider.scrape *)

\* Exceptions are records of the class name and the message.
Exc(type, msg) == [type |-> type, msg |-> msg]

NoExc == Exc("", "")

\* requests.Timeout, requests.ConnectionError, requests.HTTPError.
RetryableTypes == {"Timeout", "ConnectionError", "HTTPError"}

\* A requests exception that the retry loop does not catch.
FatalNetTypes == {"TooManyRedirects"}

NetFailureTypes == RetryableTypes \cup FatalNetTypes

\* requests.Session mounts connection adapters for http:// and https:// only.
HasAdapter(url) ==
    UrlScheme(url) \in { <<"h","t","t","p">>, <<"h","t","t","p","s">> }

\* _build_scrapeops_url: the proxy's https URL with the target as a parameter.
ProxyUrl(url) == <<"h","t","t","p","s",":","p","x","?">> \o url

\* request_url: the URL itself, or the proxy's when ScrapeOps is on.
RequestUrl(url) == IF scrapeops_enabled THEN ProxyUrl(url) ELSE url

\* What session.get and raise_for_status can raise for a request URL:
\* InvalidSchema when no adapter is mounted for it.
SessionErrors(url) == IF HasAdapter(url) THEN NetFailureTypes ELSE {"InvalidSchema"}

NetError(type) == Exc(type, "request failed")

IsRetryableMutantNoHTTP(e) == e.type \in {"Timeout", "ConnectionError"}

\* The except clause of the retry loop.
IsRetryable(e) == e.type \in RetryableTypes

LoopContinuesMutantAtLeastOnce(a, mr) == a = 0 \/ a <= mr

LoopContinuesMutantStrict(a, mr) == a < mr

\* The loop condition `while attempt <= max_retries`.
LoopContinues(a, mr) == a <= mr

\* `if attempt > max_retries: raise`, evaluated after the increment.
RetriesExhausted(a, mr) == a > mr

NoResult == [absent |-> TRUE]

\* No response, hence no response.url.
NoUrl == <<>>

\* The URL a redirected request ends at.
RedirectTarget(url) == url \o <<"/", "f">>

BackoffDelayMutantLinear(rd, a) == rd * a

\* delay = self.retry_delay * (2 ** (attempt - 1)), attempt being the number
\* of failures so far.
BackoffDelay(rd, a) == rd * 2^(a - 1)

\* The page a URL serves at time t.
Page(url, t) == [page |-> url, version |-> t]

FreshMetadataMutantCount(a) ==
    [ headers |-> "response-headers", encoding |-> "utf-8", elapsed_ms |-> "elapsed",
      attempts |-> a, retries |-> a, from_cache |-> FALSE ]

\* The metadata of a result built from a live response, `attempt` being the
\* number of failures before it.
FreshMetadata(a) ==
    [ headers |-> "response-headers", encoding |-> "utf-8", elapsed_ms |-> "elapsed",
      attempts |-> a + 1, retries |-> a, from_cache |-> FALSE ]

ScrapeResult(url, content, metadata) ==
    [ url |-> url, content |-> content, status_code |-> 200,
      content_type |-> "text/html", metadata |-> metadata ]

\* A cache hit returns the stored result with from_cache set.
CachedResult(v) == [v EXCEPT !.metadata.from_cache = TRUE]

---------------------------------------------------------------------------
(* Per-URL pipeline: the *_single_*_safe functions of tools/service.py *)

Ops == {"html", "markdown", "text", "links"}

\* "" stands for no selector (None or the empty string, both falsy).
NoSelector == ""

\* ".hit" matches one element of every page, ".miss" matches none, "[" is not
\* a selector.
Selectors == {NoSelector, ".hit", ".miss", "["}

SelectorIsValidMutantAcceptAll(sel) == TRUE

\* filter_html_by_selector: an invalid selector raises ValueError.
SelectorIsValid(sel) == sel # "["

\* len(soup.select(css_selector))
MatchCount(sel) == IF sel = ".hit" THEN 1 ELSE 0

\* The empty string as a document or a content.
EmptyContent == [empty |-> TRUE]

IsEmptyContent(c) == "empty" \in DOMAIN c

EmptyMap == [k \in {} |-> TRUE]

\* ("", 0) when nothing matches, else the matched elements and their number.
filter_html_by_selector(html, sel) ==
    IF MatchCount(sel) = 0
    THEN [ html |-> EmptyContent, matched |-> 0 ]
    ELSE [ html |-> [selected |-> sel, from |-> html], matched |-> MatchCount(sel) ]

\* html_to_markdown and html_to_text: the empty document converts to the
\* empty string.
Convert(o, html) ==
    IF IsEmptyContent(html) THEN EmptyContent ELSE [converted |-> o, from |-> html]

\* extract_metadata: no title and no meta tag in the empty document.
extract_metadata(html) == IF IsEmptyContent(html) THEN EmptyMap ELSE [title |-> html]

\* extract_links: no anchor in the empty document.
extract_links(html) == IF IsEmptyContent(html) THEN <<>> ELSE << [extracted |-> html] >>

KeepIf(cond, k, v) == IF cond THEN k :> v ELSE EmptyMap

MetaGet(m, k, default) == IF k \in DOMAIN m THEN m[k] ELSE default

clean_metadataMutantPruneZero(metadata, sel, matched) ==
    KeepIf("elapsed_ms" \in DOMAIN metadata, "elapsed_ms", MetaGet(metadata, "elapsed_ms", ""))
    @@ KeepIf(MetaGet(metadata, "attempts", 1) > 1, "attempts", MetaGet(metadata, "attempts", 1))
    @@ KeepIf(MetaGet(metadata, "retries", 0) > 0, "retries", MetaGet(metadata, "retries", 0))
    @@ KeepIf(MetaGet(metadata, "from_cache", FALSE), "from_cache", TRUE)
    @@ KeepIf(MetaGet(metadata, "proxy_used", FALSE), "proxy_used", TRUE)
    @@ KeepIf(MetaGet(metadata, "proxy_used", FALSE) /\ "proxy_config" \in DOMAIN metadata,
              "proxy_config", MetaGet(metadata, "proxy_config", ""))
    @@ KeepIf(sel # NoSelector, "css_selector_applied", sel)
    @@ KeepIf(sel # NoSelector /\ matched > 0, "elements_matched", matched)
    @@ KeepIf("page_metadata" \in DOMAIN metadata, "page_metadata",
              MetaGet(metadata, "page_metadata", ""))
    @@ KeepIf("headers" \in DOMAIN metadata, "headers", MetaGet(metadata, "headers", ""))

clean_metadataMutantCountRetries(metadata, sel, matched) ==
    KeepIf("elapsed_ms" \in DOMAIN metadata, "elapsed_ms", MetaGet(metadata, "elapsed_ms", ""))
    @@ KeepIf(MetaGet(metadata, "attempts", 1) > 1, "attempts",
              MetaGet(metadata, "attempts", 1) - 1)
    @@ KeepIf(MetaGet(metadata, "retries", 0) > 0, "retries", MetaGet(metadata, "retries", 0))
    @@ KeepIf(MetaGet(metadata, "from_cache", FALSE), "from_cache", TRUE)
    @@ KeepIf(MetaGet(metadata, "proxy_used", FALSE), "proxy_used", TRUE)
    @@ KeepIf(MetaGet(metadata, "proxy_used", FALSE) /\ "proxy_config" \in DOMAIN metadata,
              "proxy_config", MetaGet(metadata, "proxy_config", ""))
    @@ KeepIf(sel # NoSelector, "css_selector_applied", sel)
    @@ KeepIf(sel # NoSelector /\ matched >= 0, "elements_matched", matched)
    @@ KeepIf("page_metadata" \in DOMAIN metadata, "page_metadata",
              MetaGet(metadata, "page_metadata", ""))
    @@ KeepIf("headers" \in DOMAIN metadata, "headers", MetaGet(metadata, "headers", ""))

clean_metadataMutantKeepCounts(metadata, sel, matched) ==
    KeepIf("elapsed_ms" \in DOMAIN metadata, "elapsed_ms", MetaGet(metadata, "elapsed_ms", ""))
    @@ KeepIf("attempts" \in DOMAIN metadata, "attempts", MetaGet(metadata, "attempts", 1))
    @@ KeepIf("retries" \in DOMAIN metadata, "retries", MetaGet(metadata, "retries", 0))
    @@ KeepIf(MetaGet(metadata, "from_cache", FALSE), "from_cache", TRUE)
    @@ KeepIf(sel # NoSelector, "css_selector_applied", sel)
    @@ KeepIf(sel # NoSelector /\ matched >= 0, "elements_matched", matched)
    @@ KeepIf("page_metadata" \in DOMAIN metadata, "page_metadata",
              MetaGet(metadata, "page_metadata", ""))
    @@ KeepIf("headers" \in DOMAIN metadata, "headers", MetaGet(metadata, "headers", ""))

\* elements_matched is None (here -1) when no selector was given; a count of 0
\* is not None and is kept.
clean_metadata(metadata, sel, matched) ==
    KeepIf("elapsed_ms" \in DOMAIN metadata, "elapsed_ms", MetaGet(metadata, "elapsed_ms", ""))
    @@ KeepIf(MetaGet(metadata, "attempts", 1) > 1, "attempts", MetaGet(metadata, "attempts", 1))
    @@ KeepIf(MetaGet(metadata, "retries", 0) > 0, "retries", MetaGet(metadata, "retries", 0))
    @@ KeepIf(MetaGet(metadata, "from_cache", FALSE), "from_cache", TRUE)
    @@ KeepIf(MetaGet(metadata, "proxy_used", FALSE), "proxy_used", TRUE)
    @@ KeepIf(MetaGet(metadata, "proxy_used", FALSE) /\ "proxy_config" \in DOMAIN metadata,
              "proxy_config", MetaGet(metadata, "proxy_config", ""))
    @@ KeepIf(sel # NoSelector, "css_selector_applied", sel)
    @@ KeepIf(sel # NoSelector /\ matched >= 0, "elements_matched", matched)
    @@ KeepIf("page_metadata" \in DOMAIN metadata, "page_metadata",
              MetaGet(metadata, "page_metadata", ""))
    @@ KeepIf("headers" \in DOMAIN metadata, "headers", MetaGet(metadata, "headers", ""))

\* dict.pop(key, None)
Pop(m, k) == [x \in DOMAIN m \ {k} |-> m[x]]

\* error_msg = f"{type(e).__name__}: {str(e)}"
ErrorMsg(e) == <<e.type, ": ", e.msg>>

None == [absent |-> TRUE]

NoError == <<>>

FailItemMutantKeepData(url, e) ==
    [ url |-> url, success |-> FALSE, data |-> [content |-> "partial"], error |-> ErrorMsg(e) ]

\* The result item built in the except branch.
FailItem(url, e) ==
    [ url |-> url, success |-> FALSE, data |-> None, error |-> ErrorMsg(e) ]

\* The result item built at the end of the try branch.
SuccessItem(url, data) ==
    [ url |-> url, success |-> TRUE, data |-> data, error |-> NoError ]

ItemDataMutantFullDocument(o, res, sel, incl) ==
    LET scoped == IF sel # NoSelector
                  THEN filter_html_by_selector(res.content, sel)
                  ELSE [html |-> res.content, matched |-> -1]
        base == IF o \in {"markdown", "text"}
                THEN res.metadata @@ ("page_metadata" :> extract_metadata(res.content))
                ELSE res.metadata
        meta == IF incl THEN base ELSE Pop(base, "headers")
    IN  IF o = "links"
        THEN [ url |-> res.url, links |-> extract_links(res.content),
               count |-> Len(extract_links(res.content)) ]
        ELSE [ content |-> IF o = "html" THEN scoped.html ELSE Convert(o, res.content),
               status_code |-> res.status_code,
               content_type |-> res.content_type,
               metadata |-> clean_metadata(meta, sel, scoped.matched) ]

\* The data of a successful item of operation o: the content after selector
\* scoping, transformed, with the cleaned metadata (links carry none).
ItemData(o, res, sel, incl) ==
    LET scoped == IF sel # NoSelector
                  THEN filter_html_by_selector(res.content, sel)
                  ELSE [html |-> res.content, matched |-> -1]
        base == IF o \in {"markdown", "text"}
                THEN res.metadata @@ ("page_metadata" :> extract_metadata(scoped.html))
                ELSE res.metadata
        meta == IF incl THEN base ELSE Pop(base, "headers")
    IN  IF o = "links"
        THEN [ url |-> res.url, links |-> extract_links(scoped.html),
               count |-> Len(extract_links(scoped.html)) ]
        ELSE [ content |-> IF o = "html" THEN scoped.html ELSE Convert(o, scoped.html),
               status_code |-> res.status_code,
               content_type |-> res.content_type,
               metadata |-> clean_metadata(meta, sel, scoped.matched) ]

\* The exception the code after provider.scrape raises, NoExc if none: the
\* selector is parsed first, then the operation's transformation runs
\* (transformOk is whether the conversion library accepts the document; it
\* accepts the empty one).
PostFetchError(o, sel, transformOk) ==
    IF sel # NoSelector /\ ~SelectorIsValid(sel)
    THEN Exc("ValueError", "Invalid CSS selector")
    ELSE IF o # "html" /\ ~transformOk /\ ~(sel # NoSelector /\ MatchCount(sel) = 0)
    THEN Exc("TransformError", "conversion failed")
    ELSE NoExc

ExceptCatchesMutantNetOnly(e) == e.type \in NetFailureTypes

\* `except Exception`: every exception the pipeline raises is an Exception.
ExceptCatches(e) ==
    e.type \in NetFailureTypes \cup
        {"InvalidSchema", "ValueError", "TransformError", "RuntimeError"}

---------------------------------------------------------------------------
(* Batch orchestrator: the batch_* functions of tools/service.py *)

Pipelines == 1..Len(urls)

NoItem == [absent |-> TRUE]

NoResponse == [absent |-> TRUE]

CanAcquireMutantAlways(v) == TRUE

\* asyncio.Semaphore.acquire proceeds only while the value is positive.
CanAcquire(v) == v > 0

ReleaseMutantLeak(v) == v

\* Leaving the `async with semaphore` block gives the permit back.
Release(v) == v + 1

SleepingMutantRelease(v) == v + 1

\* The backoff sleep is awaited inside the `async with semaphore` block: the
\* gate's value stays as it is while the pipeline sleeps.
Sleeping(v) == v

\* A pipeline holds a permit from its acquisition to its completion.
Holding(i) == pc[i] \in {"request", "backoff"}

GatherMutantCompletionOrder(items, order) ==
    [i \in 1..Len(order) |-> items[order[i]]]

\* asyncio.gather: the results in the order of the awaitables passed in.
Gather(items, order) == [i \in 1..Len(items) |-> items[i]]

RECURSIVE CountSuccess(_)
CountSuccess(rs) ==
    IF rs = <<>> THEN 0
    ELSE (IF Head(rs).success THEN 1 ELSE 0) + CountSuccess(Tail(rs))

BatchResponseMutantFailed(results) ==
    [ total |-> Len(results), successful |-> CountSuccess(results),
      failed |-> Len(urls) - 1 - CountSuccess(results), results |-> results ]

\* The aggregation after gather.
BatchResponse(results) ==
    [ total |-> Len(results), successful |-> CountSuccess(results),
      failed |-> Len(results) - CountSuccess(results), results |-> results ]

---------------------------------------------------------------------------
(* Metrics: metrics.py *)

\* ServerMetrics() at import.
NewMetrics ==
    [ total_requests |-> 0, successful_requests |-> 0, failed_requests |-> 0,
      total_retries |-> 0, recent_requests |-> <<>>, recent_errors |-> <<>> ]

\* deque.append on a deque with maxlen: a full deque drops its left end.
DequeAppend(q, x, maxlen) ==
    IF Len(q) >= maxlen THEN Append(Tail(q), x) ELSE Append(q, x)

\* One record; status_code 0 and error <<>> stand for None.
RequestMetrics(url, timestamp, success, status_code, elapsed_ms, attempts, error) ==
    [ url |-> url, timestamp |-> timestamp, success |-> success,
      status_code |-> status_code, elapsed_ms |-> elapsed_ms, attempts |-> attempts,
      error |-> error ]

record_requestMutantForgetFailed(m, r) ==
    [ total_requests |-> m.total_requests + 1,
      successful_requests |-> m.successful_requests + (IF r.success THEN 1 ELSE 0),
      failed_requests |-> m.failed_requests,
      total_retries |-> m.total_retries + (IF r.attempts > 1 THEN r.attempts - 1 ELSE 0),
      recent_requests |-> DequeAppend(m.recent_requests, r, RECENT_REQUESTS_MAXLEN),
      recent_errors |-> IF r.success THEN m.recent_errors
                        ELSE DequeAppend(m.recent_errors, r, RECENT_ERRORS_MAXLEN) ]

record_requestMutantEvictNewest(m, r) ==
    [ total_requests |-> m.total_requests + 1,
      successful_requests |-> m.successful_requests + (IF r.success THEN 1 ELSE 0),
      failed_requests |-> m.failed_requests + (IF r.success THEN 0 ELSE 1),
      total_retries |-> m.total_retries + (IF r.attempts > 1 THEN r.attempts - 1 ELSE 0),
      recent_requests |->
          IF Len(m.recent_requests) >= RECENT_REQUESTS_MAXLEN
          THEN Append(SubSeq(m.recent_requests, 1, Len(m.recent_requests) - 1), r)
          ELSE Append(m.recent_requests, r),
      recent_errors |-> IF r.success THEN m.recent_errors
                        ELSE DequeAppend(m.recent_errors, r, RECENT_ERRORS_MAXLEN) ]

\* ServerMetrics.record_request, r being the record built from its arguments:
\* the metrics after the call.  The method has no suspension point.
record_request(m, r) ==
    [ total_requests |-> m.total_requests + 1,
      successful_requests |-> m.successful_requests + (IF r.success THEN 1 ELSE 0),
      failed_requests |-> m.failed_requests + (IF r.success THEN 0 ELSE 1),
      total_retries |-> m.total_retries + (IF r.attempts > 1 THEN r.attempts - 1 ELSE 0),
      recent_requests |-> DequeAppend(m.recent_requests, r, RECENT_REQUESTS_MAXLEN),
      recent_errors |-> IF r.success THEN m.recent_errors
                        ELSE DequeAppend(m.recent_errors, r, RECENT_ERRORS_MAXLEN) ]

SuccessRecordMutantFailed(url, res, t) ==
    RequestMetrics(url, t, FALSE, res.status_code,
                   MetaGet(res.metadata, "elapsed_ms", "none"),
                   MetaGet(res.metadata, "attempts", 1), <<>>)

\* The record a pipeline passes at the end of its try block.
SuccessRecord(url, res, t) ==
    RequestMetrics(url, t, TRUE, res.status_code,
                   MetaGet(res.metadata, "elapsed_ms", "none"),
                   MetaGet(res.metadata, "attempts", 1), <<>>)

\* The record a pipeline passes in its except branch.
FailureRecord(url, e, t) == RequestMetrics(url, t, FALSE, 0, "none", 1, ErrorMsg(e))

---------------------------------------------------------------------------
(* The runtime configuration of admin/service.py *)

\* Values of the runtime configuration and of a posted update, by Python
\* type.  A bool carries its integer value: bool is a subclass of int.
IntValue(n) == [t |-> "int", n |-> n, s |-> ""]

BoolValue(b) == [t |-> "bool", n |-> IF b THEN 1 ELSE 0, s |-> ""]

StrValue(x) == [t |-> "str", n |-> 0, s |-> x]

\* isinstance(value, int), isinstance(value, bool), isinstance(value, str).
IsInstanceInt(v) == v.t \in {"int", "bool"}

IsInstanceBool(v) == v.t = "bool"

IsInstanceStr(v) == v.t = "str"

\* _runtime_config as the module creates it (no proxy in the environment).
DefaultConfig ==
    [concurrency |-> IntValue(DEFAULT_CONCURRENCY),
     default_timeout |-> IntValue(30),
     default_max_retries |-> IntValue(3),
     cache_ttl_default |-> IntValue(DEFAULT_TTL),
     cache_ttl_static |-> IntValue(STATIC_ASSET_TTL),
     cache_ttl_realtime |-> IntValue(REALTIME_DATA_TTL),
     proxy_enabled |-> BoolValue(FALSE),
     http_proxy |-> StrValue(""),
     https_proxy |-> StrValue(""),
     no_proxy |-> StrValue(""),
     verify_ssl |-> BoolValue(FALSE)]

valid_keys == DOMAIN DefaultConfig

\* The range test of update_config for the concurrency key.
ConcurrencyAccepted(v) == 1 <= v /\ v <= 50

\* The if/elif chain of update_config: the entry is applied.
EntryAccepted(key, value) ==
    /\ key \in valid_keys
    /\ \/ key = "concurrency" /\ IsInstanceInt(value) /\ ConcurrencyAccepted(value.n)
       \/ key \in {"default_timeout", "default_max_retries"}
              /\ IsInstanceInt(value) /\ value.n > 0
       \/ key \in {"cache_ttl_default", "cache_ttl_static", "cache_ttl_realtime"}
              /\ IsInstanceInt(value) /\ value.n >= 0
       \/ key \in {"proxy_enabled", "verify_ssl"} /\ IsInstanceBool(value)
       \/ key \in {"http_proxy", "https_proxy", "no_proxy"} /\ IsInstanceStr(value)

\* update_config(config_updates): the entries are visited in the order of the
\* dict; the result holds the keys applied and the configuration.
RECURSIVE update_config(_, _)
update_config(config, config_updates) ==
    IF config_updates = <<>>
    THEN [status |-> "success", updated |-> <<>>, current_config |-> config]
    ELSE LET n == Len(config_updates)
             before == update_config(config, SubSeq(config_updates, 1, n - 1))
             key == config_updates[n][1]
             value == config_updates[n][2]
         IN  IF EntryAccepted(key, value)
             THEN [status |-> "success",
                   updated |-> Append(before.updated, key),
                   current_config |-> [before.current_config EXCEPT ![key] = value]]
             ELSE before

\* No update has been posted yet.
NoConfigResult == [status |-> "none", updated |-> <<>>, posted |-> <<>>]

\* A batch call that has not been made.
NoCall == [state |-> "idle", size |-> 0, gate |-> 0, pc |-> <<>>]

---------------------------------------------------------------------------
(* State machine *)

\* The state after import: the default provider constructed with one of the
\* given retry delays, the ScrapeOps proxy on when the environment holds an
\* API key, nothing cached, the runtime configuration at its defaults.
InitProvider(retryDelays, proxies) ==
    /\ cache_enabled \in BOOLEAN
    /\ cache = [k \in CacheKeys |-> Absent]
    /\ storeUp = TRUE
    /\ now = 0
    /\ batch = "idle"
    /\ batchNo = 0
    /\ urls = <<>>
    /\ max_retries = 0
    /\ concurrency = 1
    /\ css_selector = NoSelector
    /\ include_headers = FALSE
    /\ op = "html"
    /\ permits = 0
    /\ pc = <<>>
    /\ attempt = <<>>
    /\ last_exception = <<>>
    /\ netCalls = <<>>
    /\ sleeps = <<>>
    /\ lastOutcome = <<>>
    /\ scraped = <<>>
    /\ item = <<>>
    /\ doneOrder = <<>>
    /\ response = NoResponse
    /\ retry_delay \in retryDelays
    /\ scrapeops_enabled \in proxies
    /\ delays = <<>>
    /\ finalUrl = <<>>
    /\ runtime_config = DefaultConfig
    /\ config_result = NoConfigResult
    /\ clear_status = "none"
    /\ metrics = NewMetrics
    /\ recorded = <<>>
    /\ fn = "none"
    /\ fn_url = <<>>
    /\ fn_headers = <<>>
    /\ fn_result = <<>>
    /\ calls = [b \in 1..MaxCalls |-> NoCall]
    /\ returned = <<>>

Init == InitProvider({DEFAULT_RETRY_DELAY}, {FALSE})

\* The URL lists of up to MaxUrls entries over a set of URLs.
ListsOver(us) == UNION { [1..n -> us] : n \in 0..MaxUrls }

UrlLists == ListsOver(BatchUrls)

\* A tool call: batch_scrape_urls and its three siblings create the gate and
\* one task per URL, then await gather.
StartBatchUpTo(maxb, lists, ops, sels, retries, gates, incls) ==
    /\ batch \in {"idle", "returned"}
    /\ batchNo < maxb
    /\ \E us \in lists, mr \in retries, c \in gates, sel \in sels, o \in ops,
          incl \in incls :
        /\ urls' = us
        /\ max_retries' = mr
        /\ concurrency' = c
        /\ css_selector' = sel
        /\ op' = o
        /\ permits' = c
        /\ pc' = [i \in 1..Len(us) |-> "pending"]
        /\ attempt' = [i \in 1..Len(us) |-> 0]
        /\ last_exception' = [i \in 1..Len(us) |-> NoExc]
        /\ netCalls' = [i \in 1..Len(us) |-> 0]
        /\ sleeps' = [i \in 1..Len(us) |-> 0]
        /\ lastOutcome' = [i \in 1..Len(us) |-> "none"]
        /\ scraped' = [i \in 1..Len(us) |-> [result |-> NoResult, raised |-> NoExc]]
        /\ item' = [i \in 1..Len(us) |-> NoItem]
        /\ delays' = [i \in 1..Len(us) |-> <<>>]
        /\ finalUrl' = [i \in 1..Len(us) |-> NoUrl]
        /\ include_headers' = incl
    /\ doneOrder' = <<>>
    /\ response' = NoResponse
    /\ batch' = "running"
    /\ batchNo' = batchNo + 1
    /\ UNCHANGED <<returned, calls, cache_enabled, cache, storeUp, now, retry_delay, scrapeops_enabled, runtime_config,
                   config_result, clear_status, metrics, recorded>>
    /\ UNCHANGED fnVars

\* A tool call with max_retries between 0 and maxr, one of MaxBatches calls.
StartBatch(lists, ops, sels, maxr, gates, incls) ==
    StartBatchUpTo(MaxBatches, lists, ops, sels, 0..maxr, gates, incls)

\* The end of a pipeline: provider.scrape returned res or raised exc (its
\* locals are gone); the rest of the try block runs, the except branch turns
\* any exception into a failed item, either branch records the outcome in
\* the metrics, and the gate is released when the `async with` block is left.
Finish(i, res, exc, transformOk, permitsAfter) ==
    LET err == IF exc # NoExc THEN exc
               ELSE PostFetchError(op, css_selector, transformOk)
    IN  /\ scraped' = [scraped EXCEPT ![i] = [result |-> res, raised |-> exc]]
        /\ pc' = [pc EXCEPT ![i] = "done"]
        /\ attempt' = [attempt EXCEPT ![i] = 0]
        /\ last_exception' = [last_exception EXCEPT ![i] = NoExc]
        /\ permits' = permitsAfter
        /\ doneOrder' = Append(doneOrder, i)
        /\ IF err = NoExc
           THEN /\ item' = [item EXCEPT ![i] =
                        SuccessItem(urls[i], ItemData(op, res, css_selector, include_headers))]
                /\ metrics' = record_request(metrics, SuccessRecord(urls[i], res, now))
                /\ recorded' = Append(recorded, SuccessRecord(urls[i], res, now))
                /\ batch' = batch
           ELSE IF ExceptCatches(err)
           THEN /\ item' = [item EXCEPT ![i] = FailItem(urls[i], err)]
                /\ metrics' = record_request(metrics, FailureRecord(urls[i], err, now))
                /\ recorded' = Append(recorded, FailureRecord(urls[i], err, now))
                /\ batch' = batch
           ELSE /\ item' = item
                /\ UNCHANGED <<metrics, recorded>>
                /\ batch' = "raised"

\* A pending pipeline enters the gate and runs provider.scrape up to its first
\* suspension: a cache hit ends the pipeline at once, a miss issues the first
\* network call.  Tasks reach the gate in the order they were created.
Acquire(i) ==
    /\ batch = "running"
    /\ pc[i] = "pending"
    /\ \A j \in 1..(i - 1) : pc[j] # "pending"
    /\ CanAcquire(permits)
    /\ LET key == generate_cache_key(urls[i], CacheKwargs(op))
           cached == IF cache_enabled THEN CacheGet(cache, key, now, storeUp) ELSE Absent
       IN  IF ~IsAbsent(cached)
           THEN /\ \E transformOk \in BOOLEAN :
                       Finish(i, CachedResult(cached), NoExc, transformOk, permits)
                /\ UNCHANGED <<netCalls, sleeps>>
           ELSE IF LoopContinues(attempt[i], max_retries)
           THEN /\ pc' = [pc EXCEPT ![i] = "request"]
                /\ netCalls' = [netCalls EXCEPT ![i] = @ + 1]
                /\ permits' = permits - 1
                /\ UNCHANGED <<attempt, last_exception, sleeps, scraped, item,
                               doneOrder, batch, metrics, recorded>>
           ELSE /\ Finish(i, NoResult, Exc("RuntimeError", "Unexpected error in retry loop"),
                          TRUE, permits)
                /\ UNCHANGED <<netCalls, sleeps>>
    /\ UNCHANGED <<returned, calls, cache_enabled, cache, storeUp, now, batchNo, urls, max_retries,
                   concurrency, css_selector, include_headers, op, response,
                   lastOutcome, retry_delay, scrapeops_enabled, delays, finalUrl, runtime_config,
                   config_result, clear_status>>
    /\ UNCHANGED fnVars

\* The network call of a pipeline completes with a success response, after
\* redirects when `redirected` allows them: response.url is then the final URL.
ResponseOk(i, redirected) ==
    /\ pc[i] = "request"
    /\ HasAdapter(RequestUrl(urls[i]))
    /\ \E r \in redirected :
          finalUrl' = [finalUrl EXCEPT ![i] = IF r THEN RedirectTarget(urls[i]) ELSE urls[i]]
    /\ LET key == generate_cache_key(urls[i], CacheKwargs(op))
           res == ScrapeResult(urls[i], Page(urls[i], now), FreshMetadata(attempt[i]))
       IN  /\ cache' = IF cache_enabled
                       THEN CacheSet(cache, key, Stored(res), get_ttl_for_url(urls[i]), now,
                                     storeUp)
                       ELSE cache
           /\ \E transformOk \in BOOLEAN :
                  Finish(i, res, NoExc, transformOk, Release(permits))
    /\ lastOutcome' = [lastOutcome EXCEPT ![i] = "ok"]
    /\ UNCHANGED <<returned, calls, cache_enabled, storeUp, now, batchNo, urls, max_retries, concurrency,
                   css_selector, include_headers, op, response, netCalls, sleeps,
                   retry_delay, scrapeops_enabled, delays, runtime_config,
                   config_result, clear_status>>
    /\ UNCHANGED fnVars

\* The network call of a pipeline fails (raise_for_status included).
ResponseError(i) ==
    /\ pc[i] = "request"
    /\ \E t \in SessionErrors(RequestUrl(urls[i])) :
        LET e == NetError(t) IN
        /\ lastOutcome' = [lastOutcome EXCEPT ![i] = t]
        /\ IF IsRetryable(e)
           THEN IF RetriesExhausted(attempt[i] + 1, max_retries)
                THEN /\ Finish(i, NoResult, e, TRUE, Release(permits))
                     /\ UNCHANGED <<sleeps, delays>>
                ELSE /\ last_exception' = [last_exception EXCEPT ![i] = e]
                     /\ attempt' = [attempt EXCEPT ![i] = @ + 1]
                     /\ pc' = [pc EXCEPT ![i] = "backoff"]
                     /\ sleeps' = [sleeps EXCEPT ![i] = @ + 1]
                     /\ delays' = [delays EXCEPT ![i] =
                            Append(@, BackoffDelay(retry_delay, attempt[i] + 1))]
                     /\ permits' = Sleeping(permits)
                     /\ UNCHANGED <<scraped, item, doneOrder, batch, metrics, recorded>>
           ELSE /\ Finish(i, NoResult, e, TRUE, Release(permits))
                /\ UNCHANGED <<sleeps, delays>>
    /\ UNCHANGED <<returned, calls, cache_enabled, cache, storeUp, now, batchNo, urls, max_retries,
                   concurrency, css_selector, include_headers, op, response, netCalls,
                   retry_delay, scrapeops_enabled, finalUrl, runtime_config,
                   config_result, clear_status>>
    /\ UNCHANGED fnVars

\* The backoff sleep ends and the loop issues the next network call.
Wake(i) ==
    /\ pc[i] = "backoff"
    /\ IF LoopContinues(attempt[i], max_retries)
       THEN /\ pc' = [pc EXCEPT ![i] = "request"]
            /\ netCalls' = [netCalls EXCEPT ![i] = @ + 1]
            /\ UNCHANGED <<permits, scraped, item, doneOrder, batch, attempt,
                           last_exception, metrics, recorded>>
       ELSE /\ Finish(i, NoResult, last_exception[i], TRUE, Release(permits))
            /\ netCalls' = netCalls
    /\ UNCHANGED <<returned, calls, cache_enabled, cache, storeUp, now, batchNo, urls, max_retries,
                   concurrency, css_selector, include_headers, op, response, sleeps,
                   lastOutcome, retry_delay, scrapeops_enabled, delays, finalUrl, runtime_config,
                   config_result, clear_status>>
    /\ UNCHANGED fnVars

\* gather completes when every task has: the batch call aggregates and returns.
ReturnBatch ==
    /\ batch = "running"
    /\ \A i \in Pipelines : pc[i] = "done"
    /\ response' = BatchResponse(Gather(item, doneOrder))
    /\ batch' = "returned"
    /\ returned' = Append(returned,
                          [op |-> op, urls |-> urls, css_selector |-> css_selector,
                           include_headers |-> include_headers,
                           netCalls |-> netCalls, scraped |-> scraped,
                           response |-> BatchResponse(Gather(item, doneOrder))])
    /\ UNCHANGED <<calls, cache_enabled, cache, storeUp, now, batchNo, urls, max_retries,
                   concurrency, css_selector, include_headers, op, permits, pc, attempt,
                   last_exception, netCalls, sleeps, lastOutcome, scraped, item, doneOrder,
                   retry_delay, scrapeops_enabled, delays, finalUrl, runtime_config,
                   config_result, clear_status, metrics, recorded>>
    /\ UNCHANGED fnVars

\* Time passes.
Tick ==
    /\ now < MaxTicks * TickStep
    /\ now' = now + TickStep
    /\ UNCHANGED <<returned, calls, cache_enabled, cache, storeUp, batch, batchNo, urls, max_retries,
                   concurrency, css_selector, include_headers, op, permits, pc, attempt,
                   last_exception, netCalls, sleeps, lastOutcome, scraped, item, doneOrder,
                   response, retry_delay, scrapeops_enabled, delays, finalUrl, runtime_config,
                   config_result, clear_status, metrics, recorded>>
    /\ UNCHANGED fnVars

\* The store starts or stops raising on its calls.
StoreToggle ==
    /\ storeUp' = ~storeUp
    /\ UNCHANGED <<returned, calls, cache_enabled, cache, now, batch, batchNo, urls, max_retries,
                   concurrency, css_selector, include_headers, op, permits, pc, attempt,
                   last_exception, netCalls, sleeps, lastOutcome, scraped, item, doneOrder,
                   response, retry_delay, scrapeops_enabled, delays, finalUrl, runtime_config,
                   config_result, clear_status, metrics, recorded>>
    /\ UNCHANGED fnVars

\* Any of the four tools, with any selector.
ToolCall == StartBatch(UrlLists, Ops, Selectors, MaxRetries, 1..MaxConcurrency, {FALSE})

\* The scrape_url tool called without a selector.
ScrapeUrlCall ==
    StartBatch(UrlLists, {"html"}, {NoSelector}, MaxFetchRetries, 1..MaxConcurrency,
               {FALSE})

Next ==
    \/ ToolCall
    \/ \E i \in Pipelines : Acquire(i)
    \/ \E i \in Pipelines : ResponseOk(i, {FALSE})
    \/ \E i \in Pipelines : ResponseError(i)
    \/ \E i \in Pipelines : Wake(i)
    \/ ReturnBatch
    \/ Tick
    \/ StoreToggle

Spec == Init /\ [][Next]_vars

NextFetch ==
    \/ ScrapeUrlCall
    \/ \E i \in Pipelines : Acquire(i)
    \/ \E i \in Pipelines : ResponseOk(i, {FALSE})
    \/ \E i \in Pipelines : ResponseError(i)
    \/ \E i \in Pipelines : Wake(i)
    \/ ReturnBatch
    \/ Tick
    \/ StoreToggle

\* The fetcher under the scrape_url tool.
SpecFetch == Init /\ [][NextFetch]_vars

---------------------------------------------------------------------------
(* The fetcher when servers answer with redirects *)

RedirectCall ==
    StartBatch(UrlLists, {"html"}, {NoSelector}, MaxRetries, 1..MaxConcurrency, {FALSE})

NextRedirect ==
    \/ RedirectCall
    \/ \E i \in Pipelines : Acquire(i)
    \/ \E i \in Pipelines : ResponseOk(i, BOOLEAN)
    \/ \E i \in Pipelines : ResponseError(i)
    \/ \E i \in Pipelines : Wake(i)
    \/ ReturnBatch

SpecRedirect == Init /\ [][NextRedirect]_vars

---------------------------------------------------------------------------
(* The fetcher with longer retry loops and other retry delays *)

\* Values of the constructor's retry_delay parameter.
RetryDelays == {DEFAULT_RETRY_DELAY, 2}

InitBackoff == InitProvider(RetryDelays, {FALSE})

BackoffCall ==
    StartBatch(UrlLists, {"html"}, {NoSelector}, MaxBackoffRetries, 1..MaxConcurrency,
               {FALSE})

NextBackoff ==
    \/ BackoffCall
    \/ \E i \in Pipelines : Acquire(i)
    \/ \E i \in Pipelines : ResponseOk(i, {FALSE})
    \/ \E i \in Pipelines : ResponseError(i)
    \/ \E i \in Pipelines : Wake(i)
    \/ ReturnBatch

SpecBackoff == InitBackoff /\ [][NextBackoff]_vars

---------------------------------------------------------------------------
(* The tools of tools/router.py next to the admin configuration *)

\* Values posted for the concurrency key: around both ends of the accepted
\* range.
ConfigValues == {0, 1, 2, 50, 51}

\* POST /api/config with one of the given bodies: update_config changes the
\* runtime configuration and answers with the keys it applied.
UpdateConfigWith(bodies) ==
    /\ \E config_updates \in bodies :
          LET result == update_config(runtime_config, config_updates)
          IN  /\ runtime_config' = result.current_config
              /\ config_result' = [status |-> result.status, updated |-> result.updated,
                                   posted |-> config_updates]
    /\ UNCHANGED <<returned, calls, cache_enabled, cache, storeUp, batch, batchNo, urls, max_retries,
                   concurrency, css_selector, include_headers, op, permits, pc, attempt,
                   last_exception, netCalls, sleeps, lastOutcome, scraped, item, doneOrder,
                   response, retry_delay, scrapeops_enabled, delays, finalUrl,
                   clear_status, metrics, recorded>>
    /\ UNCHANGED fnVars

\* admin update_config({"concurrency": v}): an accepted value is stored in
\* the runtime configuration, any other is skipped.
UpdateConfig ==
    /\ UpdateConfigWith({ << <<"concurrency", IntValue(v)>> >> : v \in ConfigValues })
    /\ now' = now

\* A tool of the router: it passes the module constant DEFAULT_CONCURRENCY as
\* the concurrency of the batch.
RouterCall ==
    StartBatch(UrlLists, {"html"}, {NoSelector}, MaxRetries, {DEFAULT_CONCURRENCY}, {FALSE})

NextAdmin ==
    \/ UpdateConfig
    \/ RouterCall
    \/ \E i \in Pipelines : Acquire(i)
    \/ \E i \in Pipelines : ResponseOk(i, {FALSE})
    \/ \E i \in Pipelines : ResponseError(i)
    \/ \E i \in Pipelines : Wake(i)
    \/ ReturnBatch

SpecAdmin == Init /\ [][NextAdmin]_vars

---------------------------------------------------------------------------
(* The batch under a scheduler that runs every task that can run *)

LiveCall ==
    StartBatch(UrlLists, {"html"}, {NoSelector}, MaxRetries, 1..MaxConcurrency, {FALSE})

\* The network call of a pipeline returns or raises.
NetworkAttemptEnds(i) == ResponseOk(i, {FALSE}) \/ ResponseError(i)

NextLive ==
    \/ LiveCall
    \/ \E i \in Pipelines : Acquire(i)
    \/ \E i \in Pipelines : NetworkAttemptEnds(i)
    \/ \E i \in Pipelines : Wake(i)
    \/ ReturnBatch

\* The event loop resumes a task whose awaited gate, executor future or sleep
\* is ready; the network call made with a timeout ends, and so does the sleep.
Fairness ==
    /\ \A i \in 1..MaxUrls : WF_vars(i \in Pipelines /\ Acquire(i))
    /\ \A i \in 1..MaxUrls : WF_vars(i \in Pipelines /\ NetworkAttemptEnds(i))
    /\ \A i \in 1..MaxUrls : WF_vars(i \in Pipelines /\ Wake(i))
    /\ WF_vars(ReturnBatch)

SpecLive == Init /\ [][NextLive]_vars /\ Fairness

\* The same batch without the assumption on the scheduler.
SpecBatch == Init /\ [][NextLive]_vars

---------------------------------------------------------------------------
(* Batches holding URLs of other schemes, with and without the proxy *)

InitScheme == InitProvider({DEFAULT_RETRY_DELAY}, BOOLEAN)

\* The batch functions take the default provider for every URL.
SchemeCall ==
    StartBatch(ListsOver({UrlFtp, UrlPage}), {"html"}, {NoSelector}, MaxRetries,
               1..MaxConcurrency, {FALSE})

NextScheme ==
    \/ SchemeCall
    \/ \E i \in Pipelines : Acquire(i)
    \/ \E i \in Pipelines : ResponseOk(i, {FALSE})
    \/ \E i \in Pipelines : ResponseError(i)
    \/ \E i \in Pipelines : Wake(i)
    \/ ReturnBatch

SpecScheme == InitScheme /\ [][NextScheme]_vars

---------------------------------------------------------------------------
(* record_request called on its own, often enough to fill both windows *)

\* How often the success flag changes along a sequence of records.
Switches(h) == Cardinality({ k \in 1..(Len(h) - 1) : h[k].success # h[k + 1].success })

\* The arguments of the next call: a success of one or two attempts, or a
\* failure with its error message, stamped with the time of the call.
CallRecords(t) ==
    { RequestMetrics(UrlPage, t, TRUE, 200, "elapsed", 1 + (t % 2), <<>>),
      RequestMetrics(UrlPage, t, FALSE, 0, "none", 1, ErrorMsg(NetError("Timeout"))) }

\* metrics.record_request(...), a second after the call before it.
RecordCall ==
    /\ Len(recorded) < MaxRecords
    /\ \E r \in CallRecords(now + 1) :
          /\ Switches(Append(recorded, r)) <= MaxSwitches
          /\ metrics' = record_request(metrics, r)
          /\ recorded' = Append(recorded, r)
    /\ now' = now + 1
    /\ UNCHANGED <<returned, calls, cache_enabled, cache, storeUp, batch, batchNo, urls, max_retries,
                   concurrency, css_selector, include_headers, op, permits, pc, attempt,
                   last_exception, netCalls, sleeps, lastOutcome, scraped, item, doneOrder,
                   response, retry_delay, scrapeops_enabled, delays, finalUrl, runtime_config,
                   config_result, clear_status>>
    /\ UNCHANGED fnVars

NextWindow == RecordCall

SpecWindow == Init /\ [][NextWindow]_vars

---------------------------------------------------------------------------
(* The four tools on one page, with and without response headers *)

\* Any of the four tools on the same page, with a selector that matches, one
\* that matches nothing or none, and either value of include_headers.
MetaCall ==
    StartBatch(ListsOver({UrlPage}), Ops, {NoSelector, ".hit", ".miss"}, MaxRetries,
               1..MaxConcurrency, BOOLEAN)

NextMeta ==
    \/ MetaCall
    \/ \E i \in Pipelines : Acquire(i)
    \/ \E i \in Pipelines : ResponseOk(i, {FALSE})
    \/ \E i \in Pipelines : ResponseError(i)
    \/ \E i \in Pipelines : Wake(i)
    \/ ReturnBatch

SpecMeta == Init /\ [][NextMeta]_vars

---------------------------------------------------------------------------
(* Batch calls running at the same time, each pipeline reduced to its gate *)

GateOfMutantShared(b) == 1

\* The gate the pipelines of call b wait on: the semaphore the call created,
\* a local of the call.
GateOf(b) == b

\* A frame of the variables the concurrent calls do not touch.
CallFrame ==
    /\ UNCHANGED <<returned, cache_enabled, cache, storeUp, now, batch, batchNo, urls, max_retries,
                   concurrency, css_selector, include_headers, op, permits, pc, attempt,
                   last_exception, netCalls, sleeps, lastOutcome, scraped, item, doneOrder,
                   response, retry_delay, scrapeops_enabled, delays, finalUrl, runtime_config,
                   config_result, clear_status, metrics, recorded>>
    /\ UNCHANGED fnVars

\* A batch function is called while others may be running: it creates
\* asyncio.Semaphore(concurrency) and one task per URL.
CallStart(b) ==
    /\ calls[b].state = "idle"
    /\ \E n \in 1..MaxUrls, c \in 1..MaxConcurrency :
          calls' = [calls EXCEPT ![b] = [state |-> "running", size |-> c, gate |-> c,
                                         pc |-> [i \in 1..n |-> "pending"]]]
    /\ CallFrame

\* Pipeline i of call b passes `async with semaphore`.
CallEnter(b, i) ==
    /\ calls[b].state = "running"
    /\ calls[b].pc[i] = "pending"
    /\ \A j \in 1..(i - 1) : calls[b].pc[j] # "pending"
    /\ CanAcquire(calls[GateOf(b)].gate)
    /\ calls' = [c \in DOMAIN calls |->
                   [calls[c] EXCEPT
                      !.gate = IF c = GateOf(b) THEN @ - 1 ELSE @,
                      !.pc = IF c = b THEN [@ EXCEPT ![i] = "inside"] ELSE @]]
    /\ CallFrame

\* Pipeline i of call b leaves the block with its item.
CallLeave(b, i) ==
    /\ calls[b].state = "running"
    /\ calls[b].pc[i] = "inside"
    /\ calls' = [c \in DOMAIN calls |->
                   [calls[c] EXCEPT
                      !.gate = IF c = GateOf(b) THEN Release(@) ELSE @,
                      !.pc = IF c = b THEN [@ EXCEPT ![i] = "done"] ELSE @]]
    /\ CallFrame

\* gather of call b completes.
CallReturn(b) ==
    /\ calls[b].state = "running"
    /\ \A i \in DOMAIN calls[b].pc : calls[b].pc[i] = "done"
    /\ calls' = [calls EXCEPT ![b].state = "returned"]
    /\ CallFrame

NextCalls ==
    \/ \E b \in DOMAIN calls : CallStart(b)
    \/ \E b \in DOMAIN calls : \E i \in DOMAIN calls[b].pc : CallEnter(b, i)
    \/ \E b \in DOMAIN calls : \E i \in DOMAIN calls[b].pc : CallLeave(b, i)
    \/ \E b \in DOMAIN calls : CallReturn(b)

SpecCalls == Init /\ [][NextCalls]_vars

---------------------------------------------------------------------------
(* Tool calls one after the other on the same cache *)

\* One of up to MaxRequests calls of any of the four tools for one URL, with
\* no selector, a matching one or an invalid one, with or without headers.
RepeatCall ==
    StartBatchUpTo(MaxRequests, {<<UrlApi>>}, Ops, {NoSelector, ".hit", "["},
                   {0}, {1}, BOOLEAN)

NextRepeat ==
    \/ RepeatCall
    \/ \E i \in Pipelines : Acquire(i)
    \/ \E i \in Pipelines : ResponseOk(i, {FALSE})
    \/ \E i \in Pipelines : ResponseError(i)
    \/ ReturnBatch
    \/ Tick

SpecRepeat == Init /\ [][NextRepeat]_vars

---------------------------------------------------------------------------
(* update_config called with arbitrary bodies *)

\* Keys of a posted body: one key of each branch of update_config, and a key
\* the configuration does not have.
PostedKeys == {"concurrency", "default_timeout", "cache_ttl_default", "proxy_enabled",
               "http_proxy", "bogus"}

\* Values of a posted body: integers around the bounds, both booleans and a
\* string.
PostedValues == {IntValue(0), IntValue(1), IntValue(51), BoolValue(TRUE), BoolValue(FALSE),
                 StrValue("http://proxy:3128")}

PostedEntries == PostedKeys \X PostedValues

\* The bodies of up to MaxEntries entries, each key at most once.
PostedBodies ==
    { b \in UNION { [1..n -> PostedEntries] : n \in 0..MaxEntries } :
        \A i, j \in DOMAIN b : b[i][1] = b[j][1] => i = j }

\* One of up to MaxUpdates calls of update_config, a second after the call
\* before it.
ConfigCall ==
    /\ now < MaxUpdates
    /\ now' = now + 1
    /\ UpdateConfigWith(PostedBodies)

NextConfig == ConfigCall

SpecConfig == Init /\ [][NextConfig]_vars

---------------------------------------------------------------------------
(* Updates of the cache_ttl_* settings next to fetches *)

TtlKeys == {"cache_ttl_default", "cache_ttl_static", "cache_ttl_realtime"}

\* Bodies of one cache_ttl_* entry: a negative value, which update_config
\* skips, and values it accepts.
TtlBodies ==
    { << <<k, IntValue(v)>> >> : k \in TtlKeys, v \in {-1, 0, 60} }

\* POST /api/config with a cache_ttl_* entry.
TtlConfigCall ==
    /\ UpdateConfigWith(TtlBodies)
    /\ now' = now

\* A tool call for one URL of each TTL class.
TtlFetchCall ==
    StartBatch({<<UrlPage>>, <<UrlApi>>, <<UrlCdn>>}, {"html"}, {NoSelector}, 0, {1}, {FALSE})

NextTtl ==
    \/ TtlConfigCall
    \/ TtlFetchCall
    \/ \E i \in Pipelines : Acquire(i)
    \/ \E i \in Pipelines : ResponseOk(i, {FALSE})
    \/ \E i \in Pipelines : ResponseError(i)
    \/ ReturnBatch

SpecTtl == Init /\ [][NextTtl]_vars

---------------------------------------------------------------------------
(* Tool calls with a negative max_retries *)

\* The tools pass max_retries on as they get it: one of up to MaxRequests
\* calls for one URL with max_retries negative or zero.
NegativeCall ==
    StartBatchUpTo(MaxRequests, {<<UrlApi>>}, {"html", "links"}, {NoSelector},
                   {-2, -1, 0}, {1}, {FALSE})

NextNegative ==
    \/ NegativeCall
    \/ \E i \in Pipelines : Acquire(i)
    \/ \E i \in Pipelines : ResponseOk(i, {FALSE})
    \/ \E i \in Pipelines : ResponseError(i)
    \/ ReturnBatch
    \/ Tick

SpecNegative == Init /\ [][NextNegative]_vars

---------------------------------------------------------------------------
(* The cache-clear operations next to a batch *)

\* The store with no entry.
EmptyStore == [k \in CacheKeys |-> Absent]

\* CacheManager.clear(): the store is emptied; an exception of the store is
\* logged and swallowed, and the entries stay.
CacheManagerClear ==
    /\ cache' = IF storeUp THEN EmptyStore ELSE cache
    /\ clear_status' = IF storeUp THEN "cleared" ELSE "clear error logged"
    /\ UNCHANGED <<returned, calls, cache_enabled, storeUp, now, batch, batchNo, urls, max_retries,
                   concurrency, css_selector, include_headers, op, permits, pc, attempt,
                   last_exception, netCalls, sleeps, lastOutcome, scraped, item, doneOrder,
                   response, retry_delay, scrapeops_enabled, delays, finalUrl, runtime_config,
                   config_result, metrics, recorded>>
    /\ UNCHANGED fnVars

\* clear_all_cache(session) of cache.py called with nargs arguments: without
\* its argument the call raises TypeError before its body runs.
clear_all_cache(nargs) ==
    IF nargs = 0
    THEN Exc("TypeError",
             "clear_all_cache() missing 1 required positional argument: 'session'")
    ELSE NoExc

\* POST /api/cache/clear (clear_cache; the handler turns an exception into a
\* status "error" answer) or the cache_clear_all tool (an exception leaves the
\* tool).  Both call clear_all_cache(); the store of the fetcher's
\* CacheManager is not among what the call reaches.
ClearCacheCall ==
    /\ \E caller \in {"admin", "tool"} :
          clear_status' = IF clear_all_cache(0) = NoExc THEN "success"
                          ELSE IF caller = "admin" THEN "error" ELSE "raised"
    /\ UNCHANGED <<returned, calls, cache_enabled, cache, storeUp, now, batch, batchNo, urls, max_retries,
                   concurrency, css_selector, include_headers, op, permits, pc, attempt,
                   last_exception, netCalls, sleeps, lastOutcome, scraped, item, doneOrder,
                   response, retry_delay, scrapeops_enabled, delays, finalUrl, runtime_config,
                   config_result, metrics, recorded>>
    /\ UNCHANGED fnVars

\* A batch of the scrape tool without retries.
ClearBatchCall ==
    StartBatch(UrlLists, {"html"}, {NoSelector}, 0, 1..MaxConcurrency, {FALSE})

NextClear ==
    \/ ClearBatchCall
    \/ \E i \in Pipelines : Acquire(i)
    \/ \E i \in Pipelines : ResponseOk(i, {FALSE})
    \/ \E i \in Pipelines : ResponseError(i)
    \/ ReturnBatch
    \/ CacheManagerClear
    \/ ClearCacheCall
    \/ StoreToggle

SpecClear == Init /\ [][NextClear]_vars

---------------------------------------------------------------------------
(* Calls of the cache manager's pure functions on their own *)

\* Pieces URLs are put together from: the signals of the TTL policy in both
\* cases, parts of them, and text that carries no signal.
UrlTokens ==
    { <<"A","p","i">>, <<"a","p","i">>, <<"c","d","n">>, <<"C","D","N">>,
      <<"l","i","v","e">>, <<"L","i","v","e">>, <<"s","t","a","t","i","c">>,
      <<"r","e","a","l","t","i","m","e">>,
      <<"c","l","o","u","d","f","r","o","n","t">>,
      <<"p","g">>, <<"/">>, <<"a">>, <<"p","i">>, <<"x">> }

RECURSIVE Flatten(_)
Flatten(ts) == IF ts = <<>> THEN <<>> ELSE Head(ts) \o Flatten(Tail(ts))

TokenUrls == { Flatten(ts) : ts \in UNION { [1..n -> UrlTokens] : n \in 0..MaxTokens } }

HeaderValues == {"a", "b"}

\* The header dicts of up to MaxHeaders items, in every insertion order.
HeaderLists ==
    { h \in UNION { [1..n -> HeaderNames \X HeaderValues] : n \in 0..MaxHeaders } :
        \A a, b \in 1..Len(h) : a # b => h[a][1] # h[b][1] }

KeyUrls == {UrlApi, UrlPage, UrlCdn, UrlFtp}

\* cache_manager.generate_cache_key(url=..., headers=...)
KeyCall ==
    /\ fn = "none"
    /\ \E u \in KeyUrls, h \in HeaderLists :
        /\ fn' = "generate_cache_key"
        /\ fn_url' = u
        /\ fn_headers' = h
        /\ fn_result' = generate_cache_key(u, h)
    /\ UNCHANGED <<returned, calls, cache_enabled, cache, storeUp, now, batch, batchNo, urls, max_retries,
                   concurrency, css_selector, include_headers, op, permits, pc, attempt,
                   last_exception, netCalls, sleeps, lastOutcome, scraped, item, doneOrder,
                   response, retry_delay, scrapeops_enabled, delays, finalUrl, runtime_config,
                   config_result, clear_status, metrics, recorded>>

\* cache_manager.get_ttl_for_url(url)
TtlCall ==
    /\ fn = "none"
    /\ \E u \in TokenUrls :
        /\ fn' = "get_ttl_for_url"
        /\ fn_url' = u
        /\ fn_result' = get_ttl_for_url(u)
    /\ fn_headers' = <<>>
    /\ UNCHANGED <<returned, calls, cache_enabled, cache, storeUp, now, batch, batchNo, urls, max_retries,
                   concurrency, css_selector, include_headers, op, permits, pc, attempt,
                   last_exception, netCalls, sleeps, lastOutcome, scraped, item, doneOrder,
                   response, retry_delay, scrapeops_enabled, delays, finalUrl, runtime_config,
                   config_result, clear_status, metrics, recorded>>

NextPure ==
    \/ KeyCall
    \/ TtlCall

\* The key and TTL functions called with any arguments.
SpecPure == Init /\ [][NextPure]_vars

---------------------------------------------------------------------------
(* clean_metadata called with any metadata *)

\* A key of a metadata dict: absent, or present with one of the values.
Choices(k, values) == {EmptyMap} \cup { k :> v : v \in values }

\* The metadata dicts passed: any subset of the keys clean_metadata reads and
\* of one key it ignores, the counters up to MaxCount.
MetadataDicts ==
    { e @@ a @@ r @@ c @@ u @@ g @@ pm @@ h @@ enc :
        e \in Choices("elapsed_ms", {"elapsed"}),
        a \in Choices("attempts", 1..MaxCount),
        r \in Choices("retries", 0..(MaxCount - 1)),
        c \in Choices("from_cache", BOOLEAN),
        u \in Choices("proxy_used", BOOLEAN),
        g \in Choices("proxy_config", {"proxy-config"}),
        pm \in Choices("page_metadata", {"page-metadata"}),
        h \in Choices("headers", {"response-headers"}),
        enc \in Choices("encoding", {"utf-8"}) }

\* The css_selector and elements_matched arguments: no selector and None
\* (here -1), or a valid selector and the count of its matches.
SelectorArgs ==
    {<<NoSelector, -1>>} \cup { <<sel, MatchCount(sel)>> : sel \in {".hit", ".miss"} }

\* clean_metadata(metadata, css_selector, elements_matched), and the same
\* call on its result.
CleanCall ==
    /\ fn = "none"
    /\ \E metadata \in MetadataDicts, args \in SelectorArgs :
        LET once == clean_metadata(metadata, args[1], args[2])
        IN  /\ fn' = "clean_metadata"
            /\ fn_url' = metadata
            /\ fn_headers' = args
            /\ fn_result' = <<once, clean_metadata(once, args[1], args[2])>>
    /\ UNCHANGED <<returned, calls, cache_enabled, cache, storeUp, now, batch, batchNo, urls, max_retries,
                   concurrency, css_selector, include_headers, op, permits, pc, attempt,
                   last_exception, netCalls, sleeps, lastOutcome, scraped, item, doneOrder,
                   response, retry_delay, scrapeops_enabled, delays, finalUrl, runtime_config,
                   config_result, clear_status, metrics, recorded>>

NextClean == CleanCall

SpecClean == Init /\ [][NextClean]_vars

---------------------------------------------------------------------------
(* Claims about the batch orchestrator, checked under Spec *)

Holders == { i \in Pipelines : Holding(i) }

Failed(i) == ~IsAbsent(item[i]) /\ ~item[i].success

Succeeded(i) == ~IsAbsent(item[i]) /\ item[i].success

\* C1: for every URL list (duplicates and the empty list included) and every
\* completion order, the returned batch has one result per URL and the
\* result at position i is the one of urls[i].
C1_ResultsFollowInputOrder ==
    batch = "returned" =>
        /\ Len(response.results) = Len(urls)
        /\ \A i \in 1..Len(urls) : response.results[i].url = urls[i]

\* A batch of two different URLs has returned, the second having completed
\* before the first.
C1_Witness ==
    /\ batch = "returned"
    /\ Len(urls) = 2
    /\ urls[1] # urls[2]
    /\ doneOrder = <<2, 1>>

\* C2: a returned batch reports total = len(urls), successful = the number of
\* results with success true, failed = the number with success false, and
\* total = successful + failed.
C2_CountsAddUp ==
    batch = "returned" =>
        /\ response.total = Len(urls)
        /\ response.successful =
               Cardinality({ i \in DOMAIN response.results : response.results[i].success })
        /\ response.failed =
               Cardinality({ i \in DOMAIN response.results : ~response.results[i].success })
        /\ response.total = response.successful + response.failed

\* A returned batch with one success and one failure.
C2_Witness ==
    /\ batch = "returned"
    /\ response.successful = 1
    /\ response.failed = 1

\* What C3 asks of a state: the batch call has not raised; a pipeline whose
\* fetch raised, whose selector is invalid or whose transformation raised has
\* a failed item carrying "<ErrorKind>: <message>"; every other finished
\* pipeline has a successful item computed from its own fetch alone.
C3_State ==
    /\ batch # "raised"
    /\ \A i \in Pipelines : pc[i] = "done" =>
        LET r == scraped[i] IN
        /\ ~IsAbsent(item[i])
        /\ item[i].url = urls[i]
        /\ r.raised # NoExc =>
              /\ ~item[i].success
              /\ item[i].error = <<r.raised.type, ": ", r.raised.msg>>
        /\ (r.raised = NoExc /\ css_selector = "[") =>
              /\ ~item[i].success
              /\ item[i].error[1] = "ValueError"
        /\ ~item[i].success =>
              /\ Len(item[i].error) = 3
              /\ item[i].error[1] \in NetFailureTypes \cup
                     {"ValueError", "TransformError", "RuntimeError"}
              /\ item[i].error[2] = ": "
        /\ item[i].success =>
              /\ r.raised = NoExc
              /\ item[i].data = ItemData(op, r.result, css_selector, include_headers)
    /\ batch = "returned" => Len(response.results) = Len(urls)

\* What C3 asks of a step: the item of a pipeline, once produced, is not
\* touched by what the other pipelines do afterwards, and the call that is
\* running stays running or returns.
C3_Step ==
    /\ \A i \in DOMAIN item :
          (batch = "running" /\ ~IsAbsent(item[i])) => item'[i] = item[i]
    /\ batch = "running" => batch' \in {"running", "returned"}

\* C3: a batch call never fails outright; a pipeline that raises yields a
\* failed item with the error "<ErrorKind>: <message>" and leaves the items
\* of the other URLs as they are.
C3_ErrorIsolation == []C3_State /\ [][C3_Step]_vars

\* A returned batch in which one pipeline failed in its transformation and
\* another one succeeded.
C3_Witness ==
    /\ batch = "returned"
    /\ \E i, j \in Pipelines :
        /\ Failed(i) /\ item[i].error[1] = "TransformError"
        /\ Succeeded(j)

\* C4: in each of the four operations, a per-URL result has data and no
\* error exactly when success is true, and an error and no data exactly when
\* success is false.
C4_DataXorError ==
    \A i \in Pipelines : ~IsAbsent(item[i]) =>
        /\ item[i].success <=> (item[i].data # None /\ item[i].error = NoError)
        /\ ~item[i].success <=> (item[i].data = None /\ item[i].error # NoError)

\* A link-extraction batch with a successful and a failed result.
C4_Witness ==
    /\ op = "links"
    /\ \E i, j \in Pipelines : Succeeded(i) /\ Failed(j)

\* C5: at most `concurrency` pipelines hold the gate at any time, and the
\* gate's value accounts for them.
C5_GateBound ==
    batch = "running" =>
        /\ Cardinality(Holders) <= concurrency
        /\ permits = concurrency - Cardinality(Holders)
        /\ permits >= 0

\* The gate is full while a pipeline is still waiting for it.
C5_Witness ==
    /\ batch = "running"
    /\ Len(urls) > concurrency
    /\ Cardinality(Holders) = concurrency
    /\ \E i \in Pipelines : pc[i] = "pending"

---------------------------------------------------------------------------
(* Claims about the fetcher and the cache, checked under SpecFetch *)

KeyOf(i) == generate_cache_key(urls[i], SentHeaders)

\* The result provider.scrape returned to pipeline i, if it returned one.
Returned(i) == pc[i] = "done" /\ ~IsAbsent(scraped[i].result)

\* C6: on a miss with max_retries = n >= 0, when every attempt fails with a
\* retryable error the fetcher makes exactly n + 1 network calls (one when
\* n = 0), then raises the error of the last attempt and returns no result.
C6_ExhaustedRetriesRaise ==
    \A i \in Pipelines :
        /\ netCalls[i] <= max_retries + 1
        /\ (pc[i] = "done" /\ lastOutcome[i] \in {"Timeout", "ConnectionError", "HTTPError"}) =>
              /\ netCalls[i] = max_retries + 1
              /\ sleeps[i] = max_retries
              /\ IsAbsent(scraped[i].result)
              /\ scraped[i].raised.type = lastOutcome[i]
              /\ Failed(i)
              /\ item[i].error[1] = lastOutcome[i]

\* With max_retries = 2, a fetch has failed after three timeouts.
C6_Witness ==
    \E i \in Pipelines :
        /\ pc[i] = "done"
        /\ max_retries = 2
        /\ netCalls[i] = 3
        /\ scraped[i].raised.type = "Timeout"

\* C7: a live fetch that succeeds after k retryable failures reports
\* attempts = k + 1 and retries = k; every freshly fetched result, returned or
\* stored, has attempts >= 1 and retries = attempts - 1.
C7_AttemptsAndRetries ==
    /\ \A i \in Pipelines :
          (Returned(i) /\ ~scraped[i].result.metadata.from_cache) =>
              LET m == scraped[i].result.metadata IN
              /\ m.attempts = netCalls[i]
              /\ m.retries = netCalls[i] - 1
              /\ m.retries = sleeps[i]
              /\ m.attempts >= 1
              /\ m.retries = m.attempts - 1
              /\ m.retries <= max_retries
    /\ \A k \in CacheKeys :
          ~IsAbsent(cache[k]) =>
              /\ cache[k].value.metadata.attempts >= 1
              /\ cache[k].value.metadata.retries = cache[k].value.metadata.attempts - 1

\* A live fetch has succeeded at its third attempt.
C7_Witness ==
    \E i \in Pipelines :
        /\ Returned(i)
        /\ netCalls[i] = 3
        /\ scraped[i].result.metadata.attempts = 3
        /\ scraped[i].result.metadata.retries = 2

\* What C8 asks of a step in which a network call of pipeline i fails: the
\* pipeline goes to a backoff sleep, and from it to another call, exactly
\* when the error is a Timeout, ConnectionError or HTTPError and the calls
\* failed so far do not exceed max_retries; otherwise the fetch ends in that
\* step with that error, without a sleep or another call.
C8_Step ==
    batch = "running" =>
    \A i \in Pipelines :
        /\ (pc[i] = "request" /\ pc'[i] # "request" /\ lastOutcome'[i] # "ok") =>
              /\ pc'[i] = "backoff" <=>
                    /\ lastOutcome'[i] \in {"Timeout", "ConnectionError", "HTTPError"}
                    /\ netCalls[i] <= max_retries
              /\ pc'[i] = "backoff" => sleeps'[i] = sleeps[i] + 1
              /\ pc'[i] # "backoff" =>
                    /\ pc'[i] = "done"
                    /\ sleeps'[i] = sleeps[i]
                    /\ netCalls'[i] = netCalls[i]
                    /\ scraped'[i].raised.type = lastOutcome'[i]
        /\ (pc[i] = "backoff" /\ pc'[i] # "backoff") =>
              /\ pc'[i] = "request"
              /\ netCalls'[i] = netCalls[i] + 1

\* C8: which failed attempts are followed by another attempt.
C8_RetryDecision == [][C8_Step]_vars

\* One pipeline sleeps before retrying an HTTP status error while another
\* one has ended at its first call on an error that is not retried.
C8_Witness ==
    /\ max_retries >= 1
    /\ \E i, j \in Pipelines :
        /\ pc[i] = "backoff" /\ lastOutcome[i] = "HTTPError"
        /\ pc[j] = "done" /\ scraped[j].raised.type = "TooManyRedirects"
        /\ netCalls[j] = 1 /\ sleeps[j] = 0

\* The step in which pipeline i looks its key up in the cache.
Lookup(i) == pc[i] = "pending" /\ pc'[i] # "pending" /\ cache_enabled

Unexpired(k) == ~IsAbsent(cache[k]) /\ cache[k].expire_time > now

ServedFromCache(i) ==
    /\ pc'[i] = "done"
    /\ netCalls'[i] = 0
    /\ scraped'[i].raised = NoExc
    /\ scraped'[i].result = [cache[KeyOf(i)].value EXCEPT !.metadata.from_cache = TRUE]

C9_Step ==
    batch = "running" =>
    \A i \in Pipelines : Lookup(i) =>
        /\ (Unexpired(KeyOf(i)) /\ storeUp) => ServedFromCache(i)
        /\ netCalls'[i] > 0 =>
              \/ IsAbsent(cache[KeyOf(i)])
              \/ cache[KeyOf(i)].expire_time <= now
              \/ ~storeUp

LiveSuccess(i) ==
    pc[i] = "request" /\ pc'[i] = "done" /\ ~IsAbsent(scraped'[i].result)

ExpectedTtl(u) ==
    IF u = UrlCdn THEN STATIC_ASSET_TTL
    ELSE IF u = UrlApi THEN REALTIME_DATA_TTL
    ELSE DEFAULT_TTL

NewEntry(i) ==
    [value |-> scraped'[i].result, expire_time |-> now + ExpectedTtl(urls[i])]

\* Entries are written only by a successful live fetch, under its key and
\* TTL, and a step of a pipeline that is not one leaves the cache as it is.
C10_Frame ==
    /\ \A k \in CacheKeys :
          cache'[k] # cache[k] =>
              \E i \in Pipelines :
                  /\ LiveSuccess(i)
                  /\ ~scraped'[i].result.metadata.from_cache
                  /\ k = KeyOf(i)
                  /\ cache'[k] = NewEntry(i)
    /\ \A i \in Pipelines :
          (pc'[i] # pc[i] /\ ~LiveSuccess(i)) => cache' = cache

C10_Step ==
    batch = "running" =>
        /\ C10_Frame
        /\ \A i \in Pipelines :
              (LiveSuccess(i) /\ cache_enabled /\ storeUp) =>
                  cache'[KeyOf(i)] = NewEntry(i)

C11_State ==
    /\ batch # "raised"
    /\ \A i \in Pipelines :
          scraped[i].raised.type \in {"", "Timeout", "ConnectionError", "HTTPError",
                                       "TooManyRedirects"}

\* What C11 asks of a step, the consequences being the same whether caching
\* is disabled or the store raises: the lookup is a miss and the first
\* network call follows; a successful response yields the fresh result and
\* leaves the store as it was; a failed fetch raises the error of its call.
C11_Step ==
    batch = "running" =>
    \A i \in Pipelines :
        /\ (pc[i] = "pending" /\ pc'[i] # "pending" /\ (~cache_enabled \/ ~storeUp)) =>
              /\ pc'[i] = "request"
              /\ netCalls'[i] = 1
              /\ IsAbsent(item'[i])
        /\ (LiveSuccess(i) /\ (~cache_enabled \/ ~storeUp)) =>
              /\ cache' = cache
              /\ scraped'[i].raised = NoExc
              /\ scraped'[i].result.url = urls[i]
              /\ scraped'[i].result.content = [page |-> urls[i], version |-> now]
              /\ ~scraped'[i].result.metadata.from_cache
              /\ scraped'[i].result.metadata.attempts = netCalls[i]
              /\ item'[i].success
        /\ (pc[i] = "request" /\ pc'[i] = "done" /\ IsAbsent(scraped'[i].result)) =>
              /\ cache' = cache
              /\ scraped'[i].raised.type = lastOutcome'[i]

\* C11: an error of the cache store is absorbed: a failing read is a miss
\* followed by a live fetch, a failing write is a no-op, and the fetch ends
\* as it does with caching disabled.
C11_StoreErrorsAbsorbed == []C11_State /\ [][C11_Step]_vars

\* Sequential fetches of one URL with caching enabled: the second was
\* fetched live although the entry of the first is unexpired (its read
\* failed), and the entry still holds the first result (its write failed).
C11_Witness ==
    /\ cache_enabled
    /\ concurrency = 1
    /\ Len(urls) = 2
    /\ urls[1] = urls[2]
    /\ doneOrder = <<1, 2>>
    /\ Returned(1) /\ Returned(2)
    /\ ~scraped[1].result.metadata.from_cache
    /\ ~scraped[2].result.metadata.from_cache
    /\ scraped[1].result # scraped[2].result
    /\ Unexpired(KeyOf(1))
    /\ cache[KeyOf(1)].value = scraped[1].result

---------------------------------------------------------------------------
(* Claims about the key and the TTL policy, checked under SpecPure *)

\* C12: the cache key is a function of the URL and the header mapping: a
\* call with the same URL and the same items, inserted in any order, returns
\* the same key, and a call with a different URL returns a different key.
C12_KeyIsFunctionOfUrlAndHeaders ==
    fn = "generate_cache_key" =>
        \A u \in KeyUrls, h \in HeaderLists :
            /\ (u = fn_url /\ Items(h) = Items(fn_headers)) =>
                   generate_cache_key(u, h) = fn_result
            /\ u # fn_url => generate_cache_key(u, h) # fn_result

\* A key was computed for headers inserted against the order of their names.
C12_Witness ==
    /\ fn = "generate_cache_key"
    /\ Len(fn_headers) = 2
    /\ fn_headers[1][1] = "X-Id"
    /\ fn_headers[2][1] = "Accept"

\* Whether word w occurs in the lower-cased url.
Occurs(w, url) ==
    \E a \in 1..(Len(url) - Len(w) + 1) :
        \A k \in 1..Len(w) : LowerChar(url[a + k - 1]) = w[k]

HasStaticSignal(url) ==
    \/ Occurs(<<"s","t","a","t","i","c">>, url)
    \/ Occurs(<<"c","d","n">>, url)
    \/ Occurs(<<"c","l","o","u","d","f","r","o","n","t">>, url)

HasRealtimeSignal(url) ==
    \/ Occurs(<<"a","p","i">>, url)
    \/ Occurs(<<"r","e","a","l","t","i","m","e">>, url)
    \/ Occurs(<<"l","i","v","e">>, url)

\* C13: ttl_for(url) is 86400 if the lower-cased URL contains 'static',
\* 'cdn' or 'cloudfront'; otherwise 300 if it contains 'api', 'realtime' or
\* 'live'; otherwise 3600.  With both kinds of signal it is 86400.
C13_TtlPolicy ==
    fn = "get_ttl_for_url" =>
        /\ HasStaticSignal(fn_url) => fn_result = 86400
        /\ (~HasStaticSignal(fn_url) /\ HasRealtimeSignal(fn_url)) => fn_result = 300
        /\ (~HasStaticSignal(fn_url) /\ ~HasRealtimeSignal(fn_url)) => fn_result = 3600
        /\ (HasStaticSignal(fn_url) /\ HasRealtimeSignal(fn_url)) => fn_result = 86400

\* The TTL of a URL with an upper-case realtime signal before a static one.
C13_Witness ==
    /\ fn = "get_ttl_for_url"
    /\ fn_url = <<"A","p","i","/","c","d","n">>
    /\ fn_result = 86400

---------------------------------------------------------------------------
(* Claims about redirects, checked under SpecRedirect *)

\* C14: the url of the result of a successful live fetch is the final URL of
\* the response, after redirects, not the URL that was requested.
C14_ResultUrlIsFinalUrl ==
    \A i \in Pipelines :
        (Returned(i) /\ ~scraped[i].result.metadata.from_cache) =>
            scraped[i].result.url = finalUrl[i]

---------------------------------------------------------------------------
(* Claims about the backoff, checked under SpecBackoff *)

\* The delays a fetch has slept so far are retry_delay * 2^(k-1) for
\* k = 1, 2, ..., each the double of the one before, one per failure that was
\* followed by a retry and never more than max_retries of them.
C15_State ==
    \A i \in Pipelines :
        /\ Len(delays[i]) = sleeps[i]
        /\ Len(delays[i]) <= max_retries
        /\ \A k \in 1..Len(delays[i]) :
              /\ delays[i][k] = retry_delay * 2^(k - 1)
              /\ k > 1 => delays[i][k] = 2 * delays[i][k - 1]
        /\ pc[i] = "backoff" => attempt[i] = Len(delays[i])
        /\ (pc[i] = "done" /\ netCalls[i] > 0) => Len(delays[i]) = netCalls[i] - 1

\* The step that ends a fetch, by a success, by the failure that exhausts the
\* retries or by a fatal failure, starts no sleep; a sleep is started only by
\* a retryable failure met with retries left, and it is the next power.
C15_Step ==
    \A i \in Pipelines :
        (i \in DOMAIN pc' /\ urls' = urls /\ batchNo' = batchNo) =>
            /\ (pc[i] # "done" /\ pc'[i] = "done") => delays'[i] = delays[i]
            /\ delays'[i] # delays[i] =>
                  /\ pc[i] = "request" /\ pc'[i] = "backoff"
                  /\ lastOutcome'[i] \in RetryableTypes
                  /\ attempt'[i] <= max_retries
                  /\ delays'[i] = Append(delays[i], retry_delay * 2^(attempt'[i] - 1))

\* C15: within one fetch the sleep after the k-th retryable failure
\* (1 <= k <= max_retries) is retry_delay * 2^(k-1), so successive delays
\* double; no sleep follows the failure that exhausts the retries, nor a
\* success.
C15_BackoffDoubles == []C15_State /\ [][C15_Step]_vars

\* A fetch that failed four times with max_retries = 3 slept 1, 2 and 4 seconds
\* and did not sleep after the fourth failure.
C15_Witness ==
    \E i \in Pipelines :
        /\ pc[i] = "done"
        /\ max_retries = 3
        /\ netCalls[i] = 4
        /\ lastOutcome[i] \in RetryableTypes
        /\ delays[i] = <<1, 2, 4>>

---------------------------------------------------------------------------
(* Claims about the configured concurrency, checked under SpecAdmin *)

\* C16: the gate of a batch has the size of the configured concurrency: the
\* default 8, or the value c (1 <= c <= 50) last accepted by the admin
\* configuration update before the batch started.
C16_GateIsConfiguredConcurrency ==
    [][ batchNo' # batchNo =>
            /\ concurrency' = runtime_config.concurrency.n
            /\ permits' = runtime_config.concurrency.n ]_vars

---------------------------------------------------------------------------
(* Claims about termination, checked under SpecLive *)

Waiting(i) == i \in Pipelines /\ pc[i] = "pending"

\* C17: when network attempts and backoff sleeps end, every batch with a gate
\* of size at least 1 returns: a pipeline waiting at the gate gets in, a
\* pipeline makes at most max_retries + 1 attempts and then is done, and at
\* the return no permit is held.
C17_BatchReturns ==
    /\ (batch = "running" /\ concurrency >= 1) ~> (batch = "returned")
    /\ \A i \in 1..MaxUrls : Waiting(i) ~> (i \in Pipelines /\ pc[i] = "done")
    /\ [](\A i \in Pipelines : netCalls[i] <= max_retries + 1)
    /\ [](batch = "returned" => (permits = concurrency /\ Holders = {}))

\* A returned batch of more URLs than permits, one of which slept and retried.
C17_Witness ==
    /\ batch = "returned"
    /\ Len(urls) > concurrency
    /\ permits = concurrency
    /\ \E i \in Pipelines : sleeps[i] >= 1 /\ netCalls[i] = max_retries + 1

---------------------------------------------------------------------------
(* Claims about selectors, checked under Spec *)

InvalidSelectorError == ErrorMsg(Exc("ValueError", "Invalid CSS selector"))

\* The network calls of a finished pipeline as its fetch accounts for them:
\* none for a cache hit, the attempts the result reports, all of
\* max_retries + 1 when the retries were exhausted, and one more than the
\* sleeps when a fatal error ended it.
FetchCalls(i) ==
    IF scraped[i].raised = NoExc
    THEN IF scraped[i].result.metadata.from_cache THEN 0
         ELSE scraped[i].result.metadata.attempts
    ELSE IF scraped[i].raised.type = "RuntimeError" THEN 0
    ELSE IF IsRetryable(scraped[i].raised) THEN max_retries + 1
    ELSE sleeps[i] + 1

C18_State ==
    \A i \in Pipelines :
        /\ (pc[i] = "done" /\ css_selector \in {"[", NoSelector}) =>
              netCalls[i] = FetchCalls(i)
        /\ (pc[i] = "done" /\ css_selector = "[") =>
              /\ Failed(i)
              /\ item[i].data = None
              /\ scraped[i].raised = NoExc => item[i].error = InvalidSelectorError
              /\ scraped[i].raised # NoExc => item[i].error = ErrorMsg(scraped[i].raised)

\* The response that the selector is then applied to ends the pipeline in the
\* same step, and a finished pipeline makes no network call and no sleep.
C18_Step ==
    \A i \in Pipelines :
        (css_selector = "[" /\ i \in DOMAIN pc' /\ batchNo' = batchNo) =>
            /\ (pc[i] = "request" /\ lastOutcome'[i] = "ok") =>
                  pc'[i] = "done" /\ netCalls'[i] = netCalls[i]
            /\ pc[i] = "done" =>
                  /\ pc'[i] = "done"
                  /\ netCalls'[i] = netCalls[i]
                  /\ sleeps'[i] = sleeps[i]
                  /\ item'[i] = item[i]

\* C18: a syntactically invalid selector fails the URL's pipeline without a
\* retry: the per-URL result has success = false and carries the invalid
\* selector error whenever the fetch returned a page, and the network attempts
\* made for the URL are those of its fetch, as with no selector.
C18_InvalidSelectorIsFatal == []C18_State /\ [][C18_Step]_vars

\* A pipeline whose fetch succeeded at the second attempt and whose selector
\* was then rejected.
C18_Witness ==
    \E i \in Pipelines :
        /\ pc[i] = "done"
        /\ css_selector = "["
        /\ Failed(i)
        /\ item[i].error = InvalidSelectorError
        /\ netCalls[i] = 2

\* C20: a selector that matches no element leaves the pipeline successful:
\* the item has success = true, its content is empty and its metadata carries
\* the selector applied and elements_matched = 0; the links operation, which
\* reports no metadata, returns no link.
C20_NoMatchSucceeds ==
    \A i \in Pipelines :
        (pc[i] = "done" /\ css_selector = ".miss" /\ scraped[i].raised = NoExc) =>
            /\ Succeeded(i)
            /\ item[i].error = NoError
            /\ op # "links" =>
                  /\ IsEmptyContent(item[i].data.content)
                  /\ "css_selector_applied" \in DOMAIN item[i].data.metadata
                  /\ item[i].data.metadata["css_selector_applied"] = ".miss"
                  /\ "elements_matched" \in DOMAIN item[i].data.metadata
                  /\ item[i].data.metadata["elements_matched"] = 0
            /\ op = "links" =>
                  /\ item[i].data.links = <<>>
                  /\ item[i].data.count = 0

\* A markdown pipeline whose selector matched nothing.
C20_Witness ==
    \E i \in Pipelines :
        /\ pc[i] = "done"
        /\ css_selector = ".miss"
        /\ op = "markdown"
        /\ Succeeded(i)
        /\ item[i].data.metadata["elements_matched"] = 0
        /\ IsEmptyContent(item[i].data.content)

---------------------------------------------------------------------------
(* Claims about URL schemes, checked under SpecScheme *)

\* C19: a URL of a batch whose scheme is neither http nor https fails with
\* the no-provider error: its item has success = false, and it is never
\* retried.
C19_UnsupportedSchemeFails ==
    \A i \in Pipelines :
        (pc[i] = "done" /\ ~supports_url(urls[i])) =>
            /\ Failed(i)
            /\ item[i].error = ErrorMsg(NoProviderError)
            /\ sleeps[i] = 0
            /\ netCalls[i] <= 1

---------------------------------------------------------------------------
(* Claims about the order of scoping and extraction, checked under Spec *)

\* The scoped HTML of a pipeline: the elements the selector matched in the
\* content its fetch returned.
ScopedHtml(i) == [selected |-> css_selector, from |-> scraped[i].result.content]

\* C21: in a pipeline with a selector the scoping is applied to the content
\* the fetch (or the cache hit) returned, and the markdown, text, link and
\* page-metadata extractions take the scoped HTML as input, never the whole
\* document.
C21_ScopingBeforeExtraction ==
    \A i \in Pipelines :
        (pc[i] = "done" /\ css_selector = ".hit" /\ Succeeded(i)) =>
            /\ scraped[i].raised = NoExc
            /\ op = "html" => item[i].data.content = ScopedHtml(i)
            /\ op \in {"markdown", "text"} =>
                  /\ item[i].data.content = [converted |-> op, from |-> ScopedHtml(i)]
                  /\ item[i].data.metadata["page_metadata"] = [title |-> ScopedHtml(i)]
            /\ op = "links" =>
                  /\ item[i].data.links = << [extracted |-> ScopedHtml(i)] >>
                  /\ item[i].data.count = 1

\* A links pipeline served from the cache whose links come from the scoped
\* HTML.
C21_Witness ==
    \E i \in Pipelines :
        /\ pc[i] = "done"
        /\ css_selector = ".hit"
        /\ op = "links"
        /\ Succeeded(i)
        /\ scraped[i].result.metadata.from_cache
        /\ item[i].data.links = << [extracted |-> ScopedHtml(i)] >>

---------------------------------------------------------------------------
(* Claims about the metrics *)

CountersNotDecreased ==
    /\ metrics'.total_requests >= metrics.total_requests
    /\ metrics'.successful_requests >= metrics.successful_requests
    /\ metrics'.failed_requests >= metrics.failed_requests
    /\ metrics'.total_retries >= metrics.total_retries

\* A step that changes the metrics applies one whole record, and it is the
\* step in which exactly one pipeline ends.
OneRecordApplied ==
    metrics' # metrics =>
        /\ metrics'.total_requests = metrics.total_requests + 1
        /\ metrics'.successful_requests + metrics'.failed_requests
               = metrics.successful_requests + metrics.failed_requests + 1
        /\ Cardinality({ i \in Pipelines : pc[i] # "done" /\ pc'[i] = "done" }) = 1
        /\ \A i \in Pipelines : pc'[i] # pc[i] => pc'[i] = "done"

\* C22 (under SpecFetch): in every state total_requests is
\* successful_requests + failed_requests, no step decreases a counter, and
\* a record is applied in one step, whole, between the steps of the other
\* pipelines.
C22_CountersConsistent ==
    /\ [](metrics.total_requests = metrics.successful_requests + metrics.failed_requests)
    /\ [][CountersNotDecreased /\ (batchNo' = batchNo => OneRecordApplied)]_vars

\* Two pipelines of one batch have recorded, one a success after a retry and
\* one a failure.
C22_Witness ==
    /\ metrics.total_requests = 2
    /\ metrics.successful_requests = 1
    /\ metrics.failed_requests = 1
    /\ metrics.total_retries >= 1

IsFailure(r) == ~r.success

\* The last k elements of a sequence.
LastOf(h, k) == SubSeq(h, Len(h) - k + 1, Len(h))

Min(a, b) == IF a <= b THEN a ELSE b

\* C23 (under SpecWindow): after n record calls of which f report failure,
\* recent_requests is the last min(n, 50) records in call order and
\* recent_errors is the last min(f, 20) failed records in call order.
C23_RollingWindows ==
    LET n == Len(recorded)
        failures == SelectSeq(recorded, IsFailure)
        f == Len(failures)
    IN  /\ metrics.total_requests = n
        /\ metrics.failed_requests = f
        /\ metrics.recent_requests = LastOf(recorded, Min(n, RECENT_REQUESTS_MAXLEN))
        /\ metrics.recent_errors = LastOf(failures, Min(f, RECENT_ERRORS_MAXLEN))
        /\ \A k \in 1..Len(metrics.recent_errors) : ~metrics.recent_errors[k].success

\* Both windows have overflowed: 52 calls, more than 20 of them failures, and
\* the two oldest records are gone.
C23_Witness ==
    /\ Len(recorded) = 52
    /\ Len(metrics.recent_requests) = RECENT_REQUESTS_MAXLEN
    /\ metrics.recent_requests[1] = recorded[3]
    /\ metrics.failed_requests > RECENT_ERRORS_MAXLEN
    /\ metrics.successful_requests > 0
    /\ Len(metrics.recent_errors) = RECENT_ERRORS_MAXLEN

\* The step that ends pipeline i records one event, about its URL, with the
\* success flag of its item; no other step records.
C24_Step ==
    /\ \A i \in Pipelines :
          (batchNo' = batchNo /\ pc[i] # "done" /\ pc'[i] = "done") =>
              /\ Len(recorded') = Len(recorded) + 1
              /\ recorded'[Len(recorded')].url = urls[i]
              /\ recorded'[Len(recorded')].success = item'[i].success
              /\ metrics'.total_requests = metrics.total_requests + 1
              /\ metrics'.successful_requests =
                    metrics.successful_requests + (IF item'[i].success THEN 1 ELSE 0)
              /\ metrics'.failed_requests =
                    metrics.failed_requests + (IF item'[i].success THEN 0 ELSE 1)
    /\ (batchNo' = batchNo /\ \A i \in Pipelines : pc'[i] = pc[i] \/ pc'[i] # "done") =>
          metrics' = metrics

\* C24 (under Spec): each pipeline records exactly one metrics event, with the
\* success flag of its item, so that a returned batch of N URLs has added N
\* to total_requests, its successful count to successful_requests and its
\* failed count to failed_requests.
C24_OneRecordPerPipeline ==
    /\ [][C24_Step]_vars
    /\ [](batch = "returned" =>
            /\ metrics.total_requests = Len(urls)
            /\ metrics.total_requests = response.total
            /\ metrics.successful_requests = response.successful
            /\ metrics.failed_requests = response.failed)

\* A returned batch of two URLs, one success and one failure, recorded as such.
C24_Witness ==
    /\ batch = "returned"
    /\ response.total = 2
    /\ response.successful = 1
    /\ metrics.successful_requests = 1
    /\ metrics.failed_requests = 1

---------------------------------------------------------------------------
(* Claims about clearing the cache, checked under SpecClear *)

\* Some entry of the fetcher's store is live.
SomeEntry == \E k \in CacheKeys : ~IsAbsent(cache[k])

\* A cache-clear operation has run: CacheManager.clear, the admin endpoint or
\* the tool.
ClearStep == clear_status' # clear_status

---------------------------------------------------------------------------
(* Claims about the runtime configuration, checked under SpecConfig *)

\* The value is an integer, not a boolean.
IsInteger(v) == v.t = "int"

\* C26, as stated: after any sequence of updates the configuration has its
\* eleven keys, concurrency is an integer in [1, 50], the timeout and the
\* retry default are positive, the three cache TTLs are not negative, and
\* proxy_enabled and verify_ssl are booleans.
C26_ConfigStaysValid ==
    /\ DOMAIN runtime_config = valid_keys
    /\ IsInteger(runtime_config.concurrency)
    /\ 1 <= runtime_config.concurrency.n /\ runtime_config.concurrency.n <= 50
    /\ \A k \in {"default_timeout", "default_max_retries"} :
          IsInstanceInt(runtime_config[k]) /\ runtime_config[k].n > 0
    /\ \A k \in {"cache_ttl_default", "cache_ttl_static", "cache_ttl_realtime"} :
          IsInstanceInt(runtime_config[k]) /\ runtime_config[k].n >= 0
    /\ \A k \in {"proxy_enabled", "verify_ssl"} : IsInstanceBool(runtime_config[k])

\* The entry is a known key with a value of the key's type within the key's
\* bounds: an integer for the numeric keys, a boolean for the two flags, a
\* string for the proxy settings.
ValidEntry(key, value) ==
    /\ key \in valid_keys
    /\ \/ key = "concurrency" /\ IsInteger(value) /\ 1 <= value.n /\ value.n <= 50
       \/ key \in {"default_timeout", "default_max_retries"}
              /\ IsInteger(value) /\ value.n > 0
       \/ key \in {"cache_ttl_default", "cache_ttl_static", "cache_ttl_realtime"}
              /\ IsInteger(value) /\ value.n >= 0
       \/ key \in {"proxy_enabled", "verify_ssl"} /\ value.t = "bool"
       \/ key \in {"http_proxy", "https_proxy", "no_proxy"} /\ value.t = "str"

\* The elements of a sequence.
Range(q) == { q[i] : i \in DOMAIN q }

\* C27, as stated: a call of update_config answers without error; every posted
\* entry that is valid is applied, every entry with an unknown key or an
\* out-of-bounds or ill-typed value leaves its key as it was, the keys not
\* posted stay, and `updated` lists exactly the keys applied, each once.
C27_UpdateIsPerKey ==
    [][ config_result' # config_result =>
          LET posted == config_result'.posted
              applied == { e[1] : e \in { x \in Range(posted) : ValidEntry(x[1], x[2]) } }
          IN  /\ config_result'.status = "success"
              /\ DOMAIN runtime_config' = DOMAIN runtime_config
              /\ \A e \in Range(posted) :
                    e[1] \in valid_keys =>
                        runtime_config'[e[1]] = IF ValidEntry(e[1], e[2]) THEN e[2]
                                                ELSE runtime_config[e[1]]
              /\ \A k \in valid_keys \ { e[1] : e \in Range(posted) } :
                    runtime_config'[k] = runtime_config[k]
              /\ Range(config_result'.updated) = applied
              /\ Len(config_result'.updated) = Cardinality(applied) ]_vars

---------------------------------------------------------------------------
(* Claims about the metadata of a result, checked under SpecMeta *)

\* The item of pipeline i carries metadata: a successful item of the html,
\* markdown or text operation.
HasMetadata(i) == pc[i] = "done" /\ item[i].success /\ op # "links"

\* The metadata of the fetch behind the item of pipeline i.
FetchMetadata(i) == scraped[i].result.metadata

\* C28: in the metadata of every successful result, attempts is present iff
\* the fetch took more than one attempt, retries iff it retried, from_cache
\* iff the result came from the cache, css_selector_applied and
\* elements_matched iff a selector was given, headers iff include_headers was
\* passed; elapsed_ms of the fetch is kept.  For a live fetch the attempts
\* are the network calls of the pipeline and the retries its sleeps; for a
\* cache hit they are those of the stored result.
C28_MetadataPruning ==
    \A i \in Pipelines : HasMetadata(i) =>
        LET m == item[i].data.metadata
            f == FetchMetadata(i)
            live == netCalls[i] > 0
            attempts == IF live THEN netCalls[i] ELSE f.attempts
            retries == IF live THEN sleeps[i] ELSE f.retries
        IN  /\ ("attempts" \in DOMAIN m) <=> (attempts > 1)
            /\ "attempts" \in DOMAIN m => m.attempts = attempts
            /\ ("retries" \in DOMAIN m) <=> (retries > 0)
            /\ "retries" \in DOMAIN m => m.retries = retries
            /\ ("from_cache" \in DOMAIN m) <=> ~live
            /\ "from_cache" \in DOMAIN m => m.from_cache = TRUE
            /\ ("css_selector_applied" \in DOMAIN m) <=> (css_selector # NoSelector)
            /\ ("elements_matched" \in DOMAIN m) <=> (css_selector # NoSelector)
            /\ css_selector # NoSelector =>
                  /\ m.css_selector_applied = css_selector
                  /\ m.elements_matched = MatchCount(css_selector)
            /\ ("headers" \in DOMAIN m) <=> include_headers
            /\ "headers" \in DOMAIN m => m.headers = f.headers
            /\ "elapsed_ms" \in DOMAIN f =>
                  "elapsed_ms" \in DOMAIN m /\ m.elapsed_ms = f.elapsed_ms

\* A live result after a retry, with a selector and with the headers asked
\* for, next to a result served from the cache.
C28_Witness ==
    /\ include_headers
    /\ css_selector = ".hit"
    /\ \E i, j \in Pipelines :
          /\ HasMetadata(i) /\ netCalls[i] = 2
          /\ HasMetadata(j) /\ netCalls[j] = 0

---------------------------------------------------------------------------
(* Claims about clean_metadata, checked under SpecClean *)

\* C29: cleaning is idempotent: cleaning the cleaned metadata again, with the
\* same selector and match count, gives the cleaned metadata.
C29_CleanIsIdempotent ==
    fn = "clean_metadata" => fn_result[2] = fn_result[1]

\* A call that pruned something and kept every kind of field.
C29_Witness ==
    /\ fn = "clean_metadata"
    /\ fn_headers = <<".hit", MatchCount(".hit")>>
    /\ DOMAIN fn_url = {"elapsed_ms", "attempts", "retries", "from_cache", "proxy_used",
                        "proxy_config", "page_metadata", "headers", "encoding"}
    /\ fn_url.attempts = MaxCount
    /\ fn_url.retries = 0
    /\ fn_url.from_cache
    /\ fn_url.proxy_used
    /\ DOMAIN fn_result[1] = {"elapsed_ms", "attempts", "from_cache", "proxy_used",
                              "proxy_config", "page_metadata", "headers",
                              "css_selector_applied", "elements_matched"}

---------------------------------------------------------------------------
(* Claims about how long a pipeline holds the gate, checked under Spec *)

\* Pipeline i is inside the gate and suspended: in a network call or asleep
\* between two attempts.
InsideGate(i) == pc[i] \in {"request", "backoff"}

C30_State ==
    batch = "running" =>
        /\ concurrency - permits = Cardinality({ i \in Pipelines : InsideGate(i) })
        /\ \A j \in Pipelines :
              (pc[j] = "pending" /\ permits = 0) => ~ENABLED Acquire(j)

C30_Step ==
    (batch = "running" /\ batch' # "returned") =>
        \A i \in Pipelines :
            \* the gate is entered before the cache lookup, hit or miss
            /\ (pc[i] = "pending" /\ pc'[i] # "pending") =>
                  /\ permits > 0
                  /\ permits' = IF InsideGate(i)' THEN permits - 1 ELSE permits
            \* the permit is kept from an attempt into the sleep and back
            /\ (InsideGate(i) /\ InsideGate(i)' /\ pc'[i] # pc[i]) => permits' = permits
            \* and given back when the result is produced, success or failure
            /\ (InsideGate(i) /\ pc'[i] = "done") =>
                  /\ permits' = permits + 1
                  /\ batch' = "running" => ~IsAbsent(item'[i])

\* C30: a pipeline holds its permit from before its cache lookup until its
\* result is produced, through cache hits, backoff sleeps and transformation,
\* and gives it back on success and on failure; while the holders, those
\* asleep included, have taken every permit no other URL enters the gate.
C30_PermitHeldThroughout == []C30_State /\ [][C30_Step]_vars

\* With one permit, the first pipeline sleeps between two attempts while the
\* second is still waiting for the gate.
C30_Witness ==
    /\ batch = "running"
    /\ concurrency = 1
    /\ permits = 0
    /\ \E i, j \in Pipelines : pc[i] = "backoff" /\ pc[j] = "pending"

---------------------------------------------------------------------------
(* Claims about a URL listed more than once, checked under SpecBatch *)

\* The network call of pipeline i returned a success response.
FetchedLive(i) == lastOutcome[i] = "ok"

C31_State ==
    cache_enabled =>
        \A i \in Pipelines :
            Cardinality({ j \in Pipelines : urls[j] = urls[i] /\ FetchedLive(j) })
                <= concurrency

C31_Step ==
    cache_enabled =>
        \A i \in Pipelines :
            ( /\ pc[i] = "pending" /\ pc'[i] # "pending"
              /\ \E j \in Pipelines : urls[j] = urls[i] /\ FetchedLive(j) )
            => /\ pc'[i] = "done"
               /\ netCalls'[i] = 0
               /\ item'[i].success
               /\ item'[i].data.metadata.from_cache = TRUE

---------------------------------------------------------------------------
(* Claims about concurrent batch calls, checked under SpecCalls *)

\* The pipelines of call b inside its gate.
InFlight(b) == { i \in DOMAIN calls[b].pc : calls[b].pc[i] = "inside" }

Running == { b \in DOMAIN calls : calls[b].state = "running" }

C32_State ==
    \A b \in Running :
        /\ calls[b].size - calls[b].gate = Cardinality(InFlight(b))
        /\ \A i \in DOMAIN calls[b].pc :
              ( /\ calls[b].pc[i] = "pending"
                /\ \A j \in 1..(i - 1) : calls[b].pc[j] # "pending"
                /\ Cardinality(InFlight(b)) < calls[b].size )
              => ENABLED CallEnter(b, i)

C32_Step ==
    \A b \in DOMAIN calls :
        (calls[b].state = "running" /\ calls'[b].gate # calls[b].gate)
            => calls'[b].pc # calls[b].pc

\* C32: every batch call has its own gate: the permits taken from it are
\* those of its own pipelines, a pipeline whose own gate has a free permit can
\* enter whatever the pipelines of the other calls hold, and a gate changes
\* only when a pipeline of its own call enters or leaves.
C32_GatePerCall == []C32_State /\ [][C32_Step]_vars

\* MaxCalls calls are running, each with all MaxConcurrency permits taken:
\* MaxCalls times the gate size pipelines are in flight.
C32_Witness ==
    /\ Running = DOMAIN calls
    /\ \A b \in DOMAIN calls :
          calls[b].size = MaxConcurrency /\ Cardinality(InFlight(b)) = MaxConcurrency

---------------------------------------------------------------------------
(* Claims about the retry counter, checked under SpecFetch *)

\* The retry network attempts of pipeline i: its network calls after the
\* first.
RetryAttempts(i) == IF netCalls[i] > 1 THEN netCalls[i] - 1 ELSE 0

RECURSIVE RetriesUpTo(_)
\* The retry network attempts of the completed pipelines among 1..n.
RetriesUpTo(n) ==
    IF n = 0 THEN 0
    ELSE RetriesUpTo(n - 1) + (IF pc[n] = "done" THEN RetryAttempts(n) ELSE 0)

\* C33, as stated: total_retries is the number of retry network attempts the
\* completed pipelines performed, those of failed pipelines included and
\* none for a result served from the cache.
C33_RetriesCounted ==
    metrics.total_retries = RetriesUpTo(Len(urls))

---------------------------------------------------------------------------
(* Claims about tool calls that follow one another on the same cache *)

\* The returned calls whose pipeline for URL u fetched it over the network
\* with success.
FetchedBy(u) ==
    { k \in 1..Len(returned) :
        \E j \in 1..Len(returned[k].urls) :
            /\ returned[k].urls[j] = u
            /\ returned[k].netCalls[j] > 0
            /\ returned[k].scraped[j].raised = NoExc }

\* The raw content the latest successful fetch of u received.
LastFetched(u) ==
    LET k == CHOOSE x \in FetchedBy(u) : \A y \in FetchedBy(u) : y <= x
        j == CHOOSE x \in 1..Len(returned[k].urls) :
                 returned[k].urls[x] = u /\ returned[k].netCalls[x] > 0
    IN  returned[k].scraped[j].result.content

\* The entry for the key of pipeline i has not outlived its TTL.
NotExpired(i) == IsAbsent(cache[KeyOf(i)]) \/ cache[KeyOf(i)].expire_time > now

C34_Step ==
    (batch = "running" /\ cache_enabled) =>
    \A i \in Pipelines :
        (pc[i] = "pending" /\ pc'[i] # "pending" /\ FetchedBy(urls[i]) # {}
            /\ NotExpired(i)) =>
            /\ pc'[i] = "done"
            /\ netCalls'[i] = 0
            /\ scraped'[i].raised = NoExc
            /\ scraped'[i].result.content = LastFetched(urls[i])
            /\ item'[i].success =>
                  item'[i].data = ItemData(op, scraped'[i].result, css_selector,
                                           include_headers)

\* C34: the cache key depends on the URL and the request headers only: once
\* a call of any tool has fetched a URL with success, a call of any tool,
\* selector or header flag for that URL before the entry expires makes no
\* network attempt and transforms the raw content that fetch received.
C34_KeyIgnoresOperation == [][C34_Step]_vars

\* A call of one tool was served the page a call of another tool fetched.
C34_Witness ==
    /\ Len(returned) = 1
    /\ batch = "running"
    /\ FetchedBy(urls[1]) = {1}
    /\ returned[1].op # op
    /\ returned[1].css_selector # css_selector
    /\ pc[1] = "done"
    /\ netCalls[1] = 0
    /\ item[1].success

\* Every stored entry carries the response headers in its metadata.
C35_State ==
    \A k \in DOMAIN cache :
        ~IsAbsent(cache[k]) => "headers" \in DOMAIN cache[k].value.metadata

\* A call that asks for the headers and is served from the cache returns the
\* headers of the stored entry.
C35_Step ==
    (batch = "running" /\ cache_enabled /\ include_headers /\ op # "links") =>
    \A i \in Pipelines :
        (pc[i] = "pending" /\ pc'[i] # "pending" /\ FetchedBy(urls[i]) # {}
            /\ NotExpired(i) /\ item'[i].success) =>
            /\ netCalls'[i] = 0
            /\ "headers" \in DOMAIN item'[i].data.metadata
            /\ item'[i].data.metadata.headers = cache[KeyOf(i)].value.metadata.headers

\* C35: the stored entry keeps the response headers whatever include_headers
\* was on the call that populated it: a call with include_headers = false
\* followed, before expiry, by a call with include_headers = true has the
\* second served from the cache with the headers in its metadata.
C35_EntryKeepsHeaders == []C35_State /\ [][C35_Step]_vars

\* The first call dropped the headers, the second got them from the cache.
C35_Witness ==
    /\ Len(returned) = 1
    /\ batch = "running"
    /\ FetchedBy(urls[1]) = {1}
    /\ ~returned[1].include_headers
    /\ returned[1].response.results[1].success
    /\ include_headers
    /\ op # "links"
    /\ pc[1] = "done"
    /\ netCalls[1] = 0
    /\ item[1].success
    /\ "headers" \in DOMAIN item[1].data.metadata

\* The returned calls whose pipeline for URL u fetched it over the network
\* and then failed on its selector.
FailedOnSelector(u) ==
    { k \in FetchedBy(u) :
        \E j \in 1..Len(returned[k].response.results) :
            /\ returned[k].response.results[j].url = u
            /\ ~returned[k].response.results[j].success
            /\ returned[k].response.results[j].error = InvalidSelectorError }

\* The step in which the fetch of a pipeline succeeds and its selector is
\* rejected leaves the page in the cache; a later call for a URL whose fetch
\* ended that way is a cache hit.
C36_Step ==
    cache_enabled =>
    \A i \in Pipelines :
        /\ (LiveSuccess(i) /\ ~item'[i].success /\ item'[i].error = InvalidSelectorError) =>
              /\ ~IsAbsent(cache'[KeyOf(i)])
              /\ cache'[KeyOf(i)].value.content = scraped'[i].result.content
              /\ cache'[KeyOf(i)].expire_time = now + get_ttl_for_url(urls[i])
        /\ (batch = "running" /\ pc[i] = "pending" /\ pc'[i] # "pending"
               /\ FailedOnSelector(urls[i]) # {} /\ NotExpired(i)) =>
              /\ pc'[i] = "done"
              /\ netCalls'[i] = 0
              /\ scraped'[i].result.metadata.from_cache

\* C36: the cache is written before the selector is evaluated: a pipeline
\* that fetches with success and then fails on an invalid selector has still
\* stored the page, and the next request for it before expiry is a cache hit
\* with no network attempt.
C36_WriteBeforeSelector == [][C36_Step]_vars

\* After a call that failed on its selector, a call was served from the cache.
C36_Witness ==
    /\ Len(returned) = 1
    /\ batch = "running"
    /\ FailedOnSelector(urls[1]) = {1}
    /\ pc[1] = "done"
    /\ netCalls[1] = 0
    /\ item[1].success
    /\ scraped[1].result.metadata.from_cache

---------------------------------------------------------------------------
(* Claims about the TTL policy next to configuration updates *)

\* The TTL of the URL classes of TtlFetchCall, by the module constants.
TtlByClass(u) ==
    IF u = UrlCdn THEN STATIC_ASSET_TTL
    ELSE IF u = UrlApi THEN REALTIME_DATA_TTL
    ELSE DEFAULT_TTL

\* A fetch stores its page with the TTL of the URL's class, whatever the
\* runtime configuration holds, and a configuration update leaves the
\* entries of the cache as they are.
C37_Step ==
    /\ \A i \in Pipelines :
          (LiveSuccess(i) /\ cache_enabled) =>
              /\ ~IsAbsent(cache'[KeyOf(i)])
              /\ cache'[KeyOf(i)].expire_time - now = TtlByClass(urls[i])
              /\ cache'[KeyOf(i)].expire_time - now \in {86400, 300, 3600}
    /\ runtime_config' # runtime_config => cache' = cache

\* C37: the TTL policy is a function of the URL alone: no sequence of
\* configuration updates, accepted changes of cache_ttl_default,
\* cache_ttl_static and cache_ttl_realtime included, changes the TTL an entry
\* is stored with, which is always one of 86400, 300 and 3600.
C37_TtlIgnoresConfig == [][C37_Step]_vars

\* A page was stored with the constant TTL of its class after all three
\* cache_ttl_* settings had been changed.
C37_Witness ==
    /\ runtime_config.cache_ttl_default.n # DEFAULT_TTL
    /\ runtime_config.cache_ttl_static.n # STATIC_ASSET_TTL
    /\ runtime_config.cache_ttl_realtime.n # REALTIME_DATA_TTL
    /\ batch = "running"
    /\ cache_enabled
    /\ Returned(1)
    /\ netCalls[1] = 1
    /\ cache[KeyOf(1)].expire_time = now + TtlByClass(urls[1])

---------------------------------------------------------------------------
(* Claims about a negative max_retries *)

\* The lookup of pipeline i finds nothing to serve.
CacheMiss(i) ==
    \/ ~cache_enabled
    \/ IsAbsent(cache[KeyOf(i)])
    \/ cache[KeyOf(i)].expire_time <= now

\* No pipeline of a call with a negative max_retries has called the network,
\* and every result a pipeline got counts at least one attempt.
C38_State ==
    \A i \in Pipelines :
        /\ (batch = "running" /\ max_retries < 0) => netCalls[i] = 0
        /\ Returned(i) => scraped[i].result.metadata.attempts >= 1

\* On a miss a pipeline with a negative max_retries ends at once with the
\* error of the fall-through of the retry loop.
C38_Step ==
    (batch = "running" /\ max_retries < 0) =>
    \A i \in Pipelines :
        (pc[i] = "pending" /\ pc'[i] # "pending" /\ CacheMiss(i)) =>
            /\ pc'[i] = "done"
            /\ netCalls'[i] = 0
            /\ IsAbsent(scraped'[i].result)
            /\ scraped'[i].raised = Exc("RuntimeError", "Unexpected error in retry loop")
            /\ item'[i] = FailItem(urls[i], scraped'[i].raised)
            /\ ~item'[i].success

====
